---- MODULE Spec2Model ----
(***************************************************************************)
(* Model of wasm-component-trampoline: the semantic-version multi-map      *)
(* (src/src/semver.rs), interface paths (src/src/path.rs), the composition *)
(* graph (src/src/graph.rs) and the trampoline call path                   *)
(* (src/src/trampoline.rs).                                                *)
(*                                                                         *)
(* Strings are sequences of one-character strings, so that parsing and     *)
(* rendering are computed rather than assumed.                             *)
(***************************************************************************)
EXTENDS Integers, Sequences, FiniteSets, TLC

\* ------------------------------------------------------------------------
\* Bounds
\* ------------------------------------------------------------------------
MaxEntries == 2
MaxAdds == 3
MaxCalls == 2
MaxDepth == 2

\* ------------------------------------------------------------------------
\* Option values
\* ------------------------------------------------------------------------
None == [some |-> FALSE]
Some(x) == [some |-> TRUE, val |-> x]

\* ------------------------------------------------------------------------
\* Character-level helpers
\* ------------------------------------------------------------------------
Digits == <<"0", "1", "2", "3", "4", "5", "6", "7", "8", "9">>

IsDigit(c) == \E i \in 1..10 : Digits[i] = c

DigitVal(c) == (CHOOSE i \in 1..10 : Digits[i] = c) - 1

RECURSIVE NatToStr(_)
NatToStr(n) ==
    IF n < 10 THEN <<Digits[n + 1]>>
    ELSE NatToStr(n \div 10) \o <<Digits[(n % 10) + 1]>>

RECURSIVE StrToNat(_)
StrToNat(s) ==
    IF Len(s) = 0 THEN 0
    ELSE 10 * StrToNat(SubSeq(s, 1, Len(s) - 1)) + DigitVal(s[Len(s)])

Contains(s, ch) == \E i \in 1..Len(s) : s[i] = ch

\* str::split(ch): the pieces between occurrences of ch (always >= 1 piece)
RECURSIVE SplitOn(_, _)
SplitOn(s, ch) ==
    IF ~Contains(s, ch) THEN <<s>>
    ELSE LET i == CHOOSE k \in 1..Len(s) :
                      s[k] = ch /\ \A j \in 1..(k - 1) : s[j] # ch
         IN <<SubSeq(s, 1, i - 1)>> \o SplitOn(SubSeq(s, i + 1, Len(s)), ch)

\* str::strip_prefix / str::strip_suffix
StripPrefix(s, p) ==
    IF Len(p) <= Len(s) /\ SubSeq(s, 1, Len(p)) = p
    THEN Some(SubSeq(s, Len(p) + 1, Len(s)))
    ELSE None

\* A strip_suffix that tests for the suffix and leaves it in place
StripSuffix_Keep(s, p) ==
    IF Len(p) <= Len(s) /\ SubSeq(s, Len(s) - Len(p) + 1, Len(s)) = p
    THEN Some(s)
    ELSE None

StripSuffix(s, p) ==
    IF Len(p) <= Len(s) /\ SubSeq(s, Len(s) - Len(p) + 1, Len(s)) = p
    THEN Some(SubSeq(s, 1, Len(s) - Len(p)))
    ELSE None

CharRank(c) ==
    IF IsDigit(c) THEN DigitVal(c)
    ELSE CASE c = "a" -> 11 [] c = "b" -> 12 [] c = "c" -> 13 [] c = "d" -> 14
           [] c = "i" -> 15 [] c = "j" -> 16 [] c = "x" -> 17 [] OTHER -> 20

RECURSIVE SeqLess(_, _)
SeqLess(p, q) ==
    IF Len(q) = 0 THEN FALSE
    ELSE IF Len(p) = 0 THEN TRUE
    ELSE IF p[1] # q[1] THEN CharRank(p[1]) < CharRank(q[1])
    ELSE SeqLess(Tail(p), Tail(q))

\* ------------------------------------------------------------------------
\* semver::Version
\* ------------------------------------------------------------------------
Ver(ma, mi, pa, pre, build) ==
    [major |-> ma, minor |-> mi, patch |-> pa, pre |-> pre, build |-> build]

VersionNew(ma, mi, pa) == Ver(ma, mi, pa, <<>>, <<>>)

\* A pre-release sorts below the release; build metadata sorts above none.
PreLess(p, q) == (p # <<>> /\ q = <<>>) \/ (p # <<>> /\ q # <<>> /\ SeqLess(p, q))

VLess(a, b) ==
    \/ a.major < b.major
    \/ a.major = b.major /\ a.minor < b.minor
    \/ a.major = b.major /\ a.minor = b.minor /\ a.patch < b.patch
    \/ a.major = b.major /\ a.minor = b.minor /\ a.patch = b.patch
         /\ PreLess(a.pre, b.pre)
    \/ a.major = b.major /\ a.minor = b.minor /\ a.patch = b.patch
         /\ a.pre = b.pre /\ SeqLess(a.build, b.build)

\* BTreeSet::last / BTreeMap::last_key_value on a non-empty set of versions
MaxVersion(S) == CHOOSE v \in S : \A w \in S : w = v \/ VLess(w, v)

\* Display for Version: "major.minor.patch[-pre][+build]"
VersionDisplay(v) ==
    NatToStr(v.major) \o <<".">> \o NatToStr(v.minor) \o <<".">> \o NatToStr(v.patch)
      \o (IF v.pre # <<>> THEN <<"-">> \o v.pre ELSE <<>>)
      \o (IF v.build # <<>> THEN <<"+">> \o v.build ELSE <<>>)

IsNumeric(s) ==
    /\ Len(s) > 0
    /\ \A i \in 1..Len(s) : IsDigit(s[i])
    /\ (Len(s) > 1 => s[1] # "0")

\* Version::parse
VersionParse(s) ==
    LET Core(build, hasBuild, pre, hasPre, core) ==
            IF /\ Len(core) = 3
               /\ \A i \in 1..3 : IsNumeric(core[i])
               /\ (hasBuild => build # <<>>)
               /\ (hasPre => pre # <<>>)
            THEN [ok |-> TRUE,
                  v |-> Ver(StrToNat(core[1]), StrToNat(core[2]), StrToNat(core[3]),
                            pre, build)]
            ELSE [ok |-> FALSE]
        Dash(build, hasBuild, rest, dash) ==
            Core(build, hasBuild,
                 IF Len(dash) >= 2 THEN SubSeq(rest, Len(dash[1]) + 2, Len(rest))
                 ELSE <<>>,
                 Len(dash) >= 2, SplitOn(dash[1], "."))
        Plus(plus) ==
            Dash(IF Len(plus) >= 2 THEN SubSeq(s, Len(plus[1]) + 2, Len(s)) ELSE <<>>,
                 Len(plus) >= 2, plus[1], SplitOn(plus[1], "-"))
    IN Plus(SplitOn(s, "+"))

\* ------------------------------------------------------------------------
\* VersionMap<T> (src/src/semver.rs)
\* ------------------------------------------------------------------------
\* versions: function Version -> T; alternates: function Version -> set
EmptyVersionMap == [versions |-> <<>>, alternates |-> <<>>]

FnPut(f, k, x) == [y \in (DOMAIN f) \cup {k} |-> IF y = k THEN x ELSE f[y]]

FnDel(f, k) == [y \in (DOMAIN f) \ {k} |-> f[y]]

\* An alternate computed for pre-releases as for releases
version_alternate_IgnoresPre(version) ==
    IF version.major > 0 THEN Some(VersionNew(version.major, 0, 0))
    ELSE IF version.minor > 0 THEN Some(VersionNew(0, version.minor, 0))
    ELSE Some(VersionNew(0, 0, version.patch))

\* version_alternate
version_alternate(version) ==
    IF version.pre # <<>> THEN None
    ELSE IF version.major > 0 THEN Some(VersionNew(version.major, 0, 0))
    ELSE IF version.minor > 0 THEN Some(VersionNew(0, version.minor, 0))
    ELSE Some(VersionNew(0, 0, version.patch))

\* An update that replaces the bucket by the new version alone
update_alternates_Replace(m, version) ==
    LET alt == version_alternate(version)
    IN IF alt.some
       THEN [m EXCEPT !.alternates = FnPut(m.alternates, alt.val, {version})]
       ELSE m

\* update_alternates
update_alternates(m, version) ==
    LET alt == version_alternate(version)
    IN IF alt.some
       THEN LET old == IF alt.val \in DOMAIN m.alternates
                       THEN m.alternates[alt.val] ELSE {}
            IN [m EXCEPT !.alternates = FnPut(m.alternates, alt.val, old \cup {version})]
       ELSE m

insert_internal(m, version, value) ==
    LET m1 == update_alternates(m, version)
    IN [m1 EXCEPT !.versions = FnPut(m1.versions, version, value)]

contains_version(m, version) == version \in DOMAIN m.versions

\* try_insert without the presence check
try_insert_Overwrite(m, version, value) ==
    [ok |-> TRUE, map |-> insert_internal(m, version, value)]

\* A try_insert that hands back the stored value instead of the rejected one
try_insert_ReturnsStored(m, version, value) ==
    IF version \in DOMAIN m.versions
    THEN [ok |-> FALSE, err |-> <<version, m.versions[version]>>, map |-> m]
    ELSE [ok |-> TRUE, map |-> insert_internal(m, version, value)]

\* try_insert: result plus the map afterwards
try_insert(m, version, value) ==
    IF version \in DOMAIN m.versions
    THEN [ok |-> FALSE, err |-> <<version, value>>, map |-> m]
    ELSE [ok |-> TRUE, map |-> insert_internal(m, version, value)]

\* insert: previous value plus the map afterwards
insert(m, version, value) ==
    LET old == IF version \in DOMAIN m.versions THEN Some(m.versions[version]) ELSE None
        m1 == [m EXCEPT !.versions = FnPut(m.versions, version, value)]
    IN [old |-> old,
        map |-> IF ~old.some THEN update_alternates(m1, version) ELSE m1]

get_exact(m, version) ==
    IF version \in DOMAIN m.versions THEN Some(m.versions[version]) ELSE None

\* A get that falls back for queries carrying build metadata too
get_IgnoresBuild(m, version) ==
    IF get_exact(m, version).some THEN get_exact(m, version)
    ELSE LET alt == version_alternate(version)
         IN IF alt.some /\ alt.val \in DOMAIN m.alternates
                        /\ m.alternates[alt.val] # {}
            THEN get_exact(m, MaxVersion(m.alternates[alt.val]))
            ELSE None

\* get
get(m, version) ==
    IF get_exact(m, version).some THEN get_exact(m, version)
    ELSE IF version.build = <<>>
    THEN LET alt == version_alternate(version)
         IN IF alt.some /\ alt.val \in DOMAIN m.alternates
                        /\ m.alternates[alt.val] # {}
            THEN get_exact(m, MaxVersion(m.alternates[alt.val]))
            ELSE None
    ELSE None

\* A get_latest returning the lowest key
get_latest_First(m) ==
    IF DOMAIN m.versions = {} THEN None
    ELSE LET k == CHOOSE v \in DOMAIN m.versions :
                      \A w \in DOMAIN m.versions : w = v \/ VLess(v, w)
         IN Some(<<k, m.versions[k]>>)

\* get_latest
get_latest(m) ==
    IF DOMAIN m.versions = {} THEN None
    ELSE LET k == MaxVersion(DOMAIN m.versions)
         IN Some(<<k, m.versions[k]>>)

\* get_or_latest that only looks the version up exactly
get_or_latest_ExactOnly(m, version) ==
    IF version.some THEN get_exact(m, version.val)
    ELSE IF get_latest(m).some THEN Some(get_latest(m).val[2]) ELSE None

get_or_latest(m, version) ==
    IF version.some THEN get(m, version.val)
    ELSE IF get_latest(m).some THEN Some(get_latest(m).val[2]) ELSE None

\* A remove that cleans the alternates and leaves the primary entry
remove_AlternatesOnly(m, version) ==
    LET result == get_exact(m, version)
        alt == version_alternate(version)
    IN [old |-> result,
        map |-> IF result.some /\ alt.some /\ alt.val \in DOMAIN m.alternates
                THEN LET set == m.alternates[alt.val] \ {version}
                     IN IF set = {}
                        THEN [m EXCEPT !.alternates = FnDel(m.alternates, alt.val)]
                        ELSE [m EXCEPT !.alternates = FnPut(m.alternates, alt.val, set)]
                ELSE m]

\* A remove that leaves the alternates as they are
remove_PrimaryOnly(m, version) ==
    [old |-> get_exact(m, version),
     map |-> [m EXCEPT !.versions = FnDel(m.versions, version)]]

\* remove: the removed value plus the map afterwards
remove(m, version) ==
    LET result == get_exact(m, version)
        m1 == [m EXCEPT !.versions = FnDel(m.versions, version)]
        alt == version_alternate(version)
    IN [old |-> result,
        map |-> IF result.some /\ alt.some /\ alt.val \in DOMAIN m1.alternates
                THEN LET set == m1.alternates[alt.val] \ {version}
                     IN IF set = {}
                        THEN [m1 EXCEPT !.alternates = FnDel(m1.alternates, alt.val)]
                        ELSE [m1 EXCEPT !.alternates = FnPut(m1.alternates, alt.val, set)]
                ELSE m1]

clear(m) == EmptyVersionMap

\* ------------------------------------------------------------------------
\* Interface paths (src/src/path.rs)
\* ------------------------------------------------------------------------
ForeignInterfacePath_new(package_name, interface_name, version) ==
    [package_name |-> package_name, interface_name |-> interface_name,
     version |-> version]

\* Display for ForeignInterfacePath: "pkg/iface" or "pkg/iface@ver"
ForeignInterfacePath_display(path) ==
    path.package_name \o <<"/">> \o path.interface_name
      \o (IF path.version.some THEN <<"@">> \o VersionDisplay(path.version.val)
          ELSE <<>>)

\* InterfacePath::from_str
InterfacePath_from_str(s) ==
    LET Versioned(package_name, interface_parts, parsed) ==
            IF ~parsed.ok
            THEN [ok |-> FALSE, err |-> "VersionParseError"]
            ELSE [ok |-> TRUE,
                  path |-> [package_name |-> Some(package_name),
                            interface_name |-> interface_parts[1],
                            version |-> IF Len(interface_parts) = 2
                                        THEN Some(parsed.v) ELSE None]]
        Foreign(package_name, interface_parts) ==
            Versioned(package_name, interface_parts,
                      IF Len(interface_parts) = 2
                      THEN VersionParse(interface_parts[2])
                      ELSE [ok |-> TRUE])
        Parts(parts) ==
            IF Len(parts) = 1 /\ Contains(s, "@")
            THEN [ok |-> FALSE, err |-> "FormatError"]
            ELSE IF Len(parts) = 1
            THEN [ok |-> TRUE,
                  path |-> [package_name |-> None, interface_name |-> s,
                            version |-> None]]
            ELSE IF Len(parts) # 2
            THEN [ok |-> FALSE, err |-> "FormatError"]
            ELSE Foreign(parts[1], SplitOn(parts[2], "@"))
    IN Parts(SplitOn(s, "/"))

\* Display for InterfacePath: "iface", "pkg/iface" or "pkg/iface@ver"
InterfacePath_display(path) ==
    (IF path.package_name.some THEN path.package_name.val \o <<"/">> ELSE <<>>)
      \o path.interface_name
      \o (IF path.version.some THEN <<"@">> \o VersionDisplay(path.version.val)
          ELSE <<>>)

\* InterfacePath::into_foreign
into_foreign(path) ==
    IF path.package_name.some
    THEN Some(ForeignInterfacePath_new(path.package_name.val, path.interface_name,
                                       path.version))
    ELSE None

\* ------------------------------------------------------------------------
\* Import filters (src/src/filter.rs)
\* ------------------------------------------------------------------------
\* An ImportRule is "Skip", "Include" or "Force".  A filter is an ImportRule
\* used as a filter, a RegexMatchFilter or a Vec of filters.
ImportRuleFilter(rule) == [type |-> "ImportRule", rule |-> rule]

VecFilter(filters) == [type |-> "Vec", filters |-> filters]

\* ImportRule::default
ImportRule_default == "Include"

\* Regex::is_match for the patterns used here: a literal, searched anywhere in
\* the text, or at its start when the pattern begins with `^`
Regex_is_match(regex, text) ==
    \E i \in 1..(Len(text) - Len(regex.literal) + 1) :
        /\ regex.anchored => i = 1
        /\ SubSeq(text, i, i + Len(regex.literal) - 1) = regex.literal

\* RegexMatchFilter::with_default
RegexMatchFilter_with_default(regex, match_rule, default_rule) ==
    [type |-> "RegexMatchFilter", regex |-> regex, match_rule |-> match_rule,
     default_rule |-> default_rule]

\* RegexMatchFilter::new
RegexMatchFilter_new(regex, match_rule) ==
    RegexMatchFilter_with_default(regex, match_rule, ImportRuleFilter("Include"))

\* <ImportRule as ImportFilter>::filter_rule
ImportRule_filter_rule(self, path) == self.rule

RECURSIVE filter_rule(_, _)

\* A regex filter that tests the package name instead of the rendered path
RegexMatchFilter_filter_rule_NameOnly(self, import_path) ==
    IF Regex_is_match(self.regex, import_path.package_name)
    THEN filter_rule(self.match_rule, import_path)
    ELSE filter_rule(self.default_rule, import_path)

\* <RegexMatchFilter as ImportFilter>::filter_rule
RegexMatchFilter_filter_rule(self, import_path) ==
    IF Regex_is_match(self.regex, ForeignInterfacePath_display(import_path))
    THEN filter_rule(self.match_rule, import_path)
    ELSE filter_rule(self.default_rule, import_path)

RECURSIVE Vec_filter_rule(_, _, _)

\* A list evaluation in which a later Skip or Force replaces an earlier one
Vec_filter_rule_LastWins(self, path, k) ==
    IF k > Len(self) THEN [rule |-> "Include", consulted |-> Len(self)]
    ELSE IF Vec_filter_rule(self, path, k + 1).rule # "Include"
    THEN Vec_filter_rule(self, path, k + 1)
    ELSE [rule |-> filter_rule(self[k], path), consulted |-> Len(self)]

\* <Vec<F> as ImportFilter>::filter_rule from filter k on: the rule returned
\* and the number of filters of the list that were asked
Vec_filter_rule(self, path, k) ==
    IF k > Len(self) THEN [rule |-> "Include", consulted |-> Len(self)]
    ELSE IF filter_rule(self[k], path) = "Skip"
    THEN [rule |-> "Skip", consulted |-> k]
    ELSE IF filter_rule(self[k], path) = "Force"
    THEN [rule |-> "Force", consulted |-> k]
    ELSE Vec_filter_rule(self, path, k + 1)

\* ImportFilter::filter_rule, dispatched on the implementing type
filter_rule(self, path) ==
    IF self.type = "ImportRule" THEN ImportRule_filter_rule(self, path)
    ELSE IF self.type = "RegexMatchFilter"
    THEN RegexMatchFilter_filter_rule(self, path)
    ELSE Vec_filter_rule(self.filters, path, 1).rule

\* ------------------------------------------------------------------------
\* Package trampolines (src/src/trampoline.rs)
\* ------------------------------------------------------------------------
\* PackageTrampoline::interface_trampoline, wrapped by DynPackageTrampoline
interface_trampoline(pt, interface_name) ==
    [kind |-> pt.kind,
     context |-> IF interface_name \in DOMAIN pt.interface_context_overrides
                 THEN pt.interface_context_overrides[interface_name]
                 ELSE pt.default_context]

\* ------------------------------------------------------------------------
\* Components offered to add_package: (name, version, bytes, trampoline)
\* ------------------------------------------------------------------------
Inst(name, funcs) == [name |-> name, kind |-> "Instance", funcs |-> funcs]

FuncItem(name) == [name |-> name, kind |-> "Func", funcs |-> <<>>]

SyncTrampoline ==
    [kind |-> "Sync", default_context |-> 0,
     interface_context_overrides |-> <<>>]

AsyncTrampoline ==
    [kind |-> "Async", default_context |-> 0,
     interface_context_overrides |-> <<>>]

\* PackageTrampoline::with_default_context
PackageTrampoline_with_default_context(kind, default_context) ==
    [kind |-> kind, default_context |-> default_context,
     interface_context_overrides |-> <<>>]

\* PackageTrampoline::set_default_context
set_default_context(self, context) == [self EXCEPT !.default_context = context]

\* PackageTrampoline::get_interface_context
get_interface_context(self, interface_name) ==
    IF interface_name \in DOMAIN self.interface_context_overrides
    THEN Some(self.interface_context_overrides[interface_name])
    ELSE None

\* PackageTrampoline::set_interface_context
set_interface_context(self, interface_name, context) ==
    [self EXCEPT !.interface_context_overrides = FnPut(@, interface_name, context)]

\* A removal that drops every override
remove_interface_context_All(self, interface_name) ==
    [self EXCEPT !.interface_context_overrides = <<>>]

\* PackageTrampoline::remove_interface_context
remove_interface_context(self, interface_name) ==
    [self EXCEPT !.interface_context_overrides = FnDel(@, interface_name)]

\* The runner's store data (src/tests/runner/src/bin/runner.rs): AppData::default()
AppData_default == [stack_depth |-> 0]

\* PassthroughTrampoline::bounce / bounce_async: the store data before call()
PassthroughTrampoline_before_call(data) == [data EXCEPT !.stack_depth = @ + 1]

\* A trampoline that leaves the depth as it is after the call
PassthroughTrampoline_after_call_Keep(data) == data

\* PassthroughTrampoline::bounce / bounce_async: the store data after a
\* successful call()
PassthroughTrampoline_after_call(data) == [data EXCEPT !.stack_depth = @ - 1]

Fixtures == <<
    \* 1: leaf a@1.0.0 exporting a/i@1.0.0
    [name |-> <<"a">>, version |-> VersionNew(1, 0, 0), valid |-> TRUE,
     exports |-> <<Inst(<<"a", "/", "i", "@", "1", ".", "0", ".", "0">>,
                        <<<<"f">>, <<"g">>>>)>>,
     uses |-> <<>>, imports |-> <<>>, trampoline |-> SyncTrampoline],
    \* 2: a@1.1.0, imports b/i@2.0.0, async trampoline, one interface without functions
    [name |-> <<"a">>, version |-> VersionNew(1, 1, 0), valid |-> TRUE,
     exports |-> <<Inst(<<"a", "/", "i", "@", "1", ".", "1", ".", "0">>, <<<<"f">>, <<"g">>>>),
                   Inst(<<"a", "/", "j", "@", "1", ".", "1", ".", "0">>, <<>>)>>,
     uses |-> <<>>,
     imports |-> <<Inst(<<"b", "/", "i", "@", "2", ".", "0", ".", "0">>, <<>>)>>,
     trampoline |-> AsyncTrampoline],
    \* 3: b@2.1.0, uses and imports a/i@1.0.0, a local import and a function
    \* import; async trampoline
    [name |-> <<"b">>, version |-> VersionNew(2, 1, 0), valid |-> TRUE,
     exports |-> <<Inst(<<"b", "/", "i", "@", "2", ".", "1", ".", "0">>, <<<<"f">>>>)>>,
     uses |-> <<<<"a", "/", "i", "@", "1", ".", "0", ".", "0">>>>,
     imports |-> <<Inst(<<"a", "/", "i", "@", "1", ".", "0", ".", "0">>, <<>>),
                   Inst(<<"x">>, <<>>),
                   FuncItem(<<"f">>)>>,
     trampoline |-> AsyncTrampoline],
    \* 4: application c@0.4.0 importing a/i@1.0.0 and b/i@2.0.0
    [name |-> <<"c">>, version |-> VersionNew(0, 4, 0), valid |-> TRUE,
     exports |-> <<Inst(<<"c", "/", "i", "@", "0", ".", "4", ".", "0">>, <<<<"f">>>>),
                   FuncItem(<<"c", "/", "r", "@", "0", ".", "4", ".", "0">>)>>,
     uses |-> <<>>,
     imports |-> <<Inst(<<"a", "/", "i", "@", "1", ".", "0", ".", "0">>, <<>>),
                   Inst(<<"b", "/", "i", "@", "2", ".", "0", ".", "0">>, <<>>)>>,
     trampoline |-> SyncTrampoline],
    \* 5: another c@0.4.0: unversioned import a/i, import a/j@1.0.0, foreign export key
    [name |-> <<"c">>, version |-> VersionNew(0, 4, 0), valid |-> TRUE,
     exports |-> <<Inst(<<"x", "/", "i", "@", "0", ".", "4", ".", "0">>, <<<<"f">>>>)>>,
     uses |-> <<>>,
     imports |-> <<Inst(<<"a", "/", "i">>, <<>>),
                   Inst(<<"a", "/", "j", "@", "1", ".", "0", ".", "0">>, <<>>)>>,
     trampoline |-> SyncTrampoline],
    \* 6: bytes that are not a component, offered as a@1.0.0
    [name |-> <<"a">>, version |-> VersionNew(1, 0, 0), valid |-> FALSE,
     exports |-> <<>>, uses |-> <<>>, imports |-> <<>>,
     trampoline |-> SyncTrampoline],
    \* 7: d@1.0.0 with an import name that does not parse
    [name |-> <<"d">>, version |-> VersionNew(1, 0, 0), valid |-> TRUE,
     exports |-> <<>>, uses |-> <<>>,
     imports |-> <<Inst(<<"a", "/", "i", "/">>, <<>>)>>,
     trampoline |-> SyncTrampoline],
    \* 8: a@2.0.0 importing its own interface
    [name |-> <<"a">>, version |-> VersionNew(2, 0, 0), valid |-> TRUE,
     exports |-> <<Inst(<<"a", "/", "i", "@", "2", ".", "0", ".", "0">>, <<<<"f">>>>)>>,
     uses |-> <<>>,
     imports |-> <<Inst(<<"a", "/", "i", "@", "2", ".", "0", ".", "0">>, <<>>)>>,
     trampoline |-> SyncTrampoline],
    \* 9: leaf p@1.0.0 exporting p/i, p/j and p/k
    [name |-> <<"p">>, version |-> VersionNew(1, 0, 0), valid |-> TRUE,
     exports |-> <<Inst(<<"p", "/", "i", "@", "1", ".", "0", ".", "0">>, <<<<"f">>>>),
                   Inst(<<"p", "/", "j", "@", "1", ".", "0", ".", "0">>, <<<<"g">>, <<"h">>>>),
                   Inst(<<"p", "/", "k", "@", "1", ".", "0", ".", "0">>, <<<<"f">>>>)>>,
     uses |-> <<>>,
     imports |-> <<>>,
     trampoline |-> SyncTrampoline],
    \* 10: q@1.0.0 importing p/i@1.0.0
    [name |-> <<"q">>, version |-> VersionNew(1, 0, 0), valid |-> TRUE,
     exports |-> <<Inst(<<"q", "/", "i", "@", "1", ".", "0", ".", "0">>, <<<<"f">>>>)>>,
     uses |-> <<>>,
     imports |-> <<Inst(<<"p", "/", "i", "@", "1", ".", "0", ".", "0">>, <<>>)>>,
     trampoline |-> SyncTrampoline],
    \* 11: r@1.0.0 using and importing p/j@1.0.0, importing p/i@1.0.0
    [name |-> <<"r">>, version |-> VersionNew(1, 0, 0), valid |-> TRUE,
     exports |-> <<Inst(<<"r", "/", "i", "@", "1", ".", "0", ".", "0">>, <<<<"f">>>>)>>,
     uses |-> <<<<"p", "/", "j", "@", "1", ".", "0", ".", "0">>>>,
     imports |-> <<Inst(<<"p", "/", "j", "@", "1", ".", "0", ".", "0">>, <<>>),
                   Inst(<<"p", "/", "i", "@", "1", ".", "0", ".", "0">>, <<>>)>>,
     trampoline |-> SyncTrampoline],
    \* 12: s@1.0.0 importing q/i@1.0.0 and r/i@1.0.0: with 9, 10 and 11 a diamond
    [name |-> <<"s">>, version |-> VersionNew(1, 0, 0), valid |-> TRUE,
     exports |-> <<Inst(<<"s", "/", "i", "@", "1", ".", "0", ".", "0">>, <<<<"f">>>>)>>,
     uses |-> <<>>,
     imports |-> <<Inst(<<"q", "/", "i", "@", "1", ".", "0", ".", "0">>, <<>>),
                   Inst(<<"r", "/", "i", "@", "1", ".", "0", ".", "0">>, <<>>)>>,
     trampoline |-> SyncTrampoline],
    \* 13: p@1.1.0 importing s/i@1.0.0: with 10 or 11 and 12 a cycle
    [name |-> <<"p">>, version |-> VersionNew(1, 1, 0), valid |-> TRUE,
     exports |-> <<Inst(<<"p", "/", "i", "@", "1", ".", "1", ".", "0">>, <<<<"f">>>>),
                   Inst(<<"p", "/", "j", "@", "1", ".", "1", ".", "0">>, <<<<"g">>, <<"h">>>>)>>,
     uses |-> <<>>,
     imports |-> <<Inst(<<"s", "/", "i", "@", "1", ".", "0", ".", "0">>, <<>>)>>,
     trampoline |-> SyncTrampoline]
>>

\* The components offered to the graph of Spec and SpecFilter
GraphFixtures == 1..8

\* The components offered to the graph of SpecLoad
LoadFixtures == 9..13

\* ------------------------------------------------------------------------
\* CompositionGraph::add_package (src/src/graph.rs)
\* ------------------------------------------------------------------------
\* A graph value: packages is the slab as a sequence (PackageId id is entry
\* id + 1), package_map: name -> VersionMap<PackageId>, exported_interfaces:
\* ForeignInterfacePath -> InterfaceExport, imported_interfaces: PackageId ->
\* sequence of ForeignInterfacePath.
EmptyGraph ==
    [packages |-> <<>>, package_map |-> <<>>,
     exported_interfaces |-> <<>>, imported_interfaces |-> <<>>]

\* Slab::get
packages_get(pkgs, id) == IF id + 1 \in DOMAIN pkgs THEN Some(pkgs[id + 1]) ELSE None

\* Slab::insert: the key of the new entry and the slab afterwards
packages_insert(pkgs, package) == [id |-> Len(pkgs), packages |-> Append(pkgs, package)]

\* Package::from_bytes(name, Some(version), bytes, types)
Package_from_bytes(name, version, fx) ==
    IF Fixtures[fx].valid
    THEN [ok |-> TRUE, package |-> [name |-> name, version |-> Some(version), fx |-> fx]]
    ELSE [ok |-> FALSE]

\* The loop over the package's exports: index every instance export whose key
\* is "{name}/{iface}{@version}".
RECURSIVE IndexExports(_, _, _, _, _)
IndexExports(exported, package, package_id, trampoline, k) ==
    LET exports == Fixtures[package.fx].exports
        InsertExport(path, entry) ==
            IF path \in DOMAIN exported
            THEN [panic |-> TRUE, exported |-> FnPut(exported, path, entry)]
            ELSE IndexExports(FnPut(exported, path, entry), package,
                              package_id, trampoline, k + 1)
        Named(interface_name) ==
            IF exports[k].kind # "Instance" \/ ~interface_name.some
            THEN IndexExports(exported, package, package_id, trampoline, k + 1)
            ELSE InsertExport(
                     ForeignInterfacePath_new(package.name, interface_name.val,
                                              package.version),
                     [package |-> package_id,
                      interface |-> <<package.fx, k>>,
                      trampoline |->
                          interface_trampoline(trampoline, interface_name.val)])
        Strip(stripped, version_suffix) ==
            Named(IF stripped.some THEN StripSuffix(stripped.val, version_suffix)
                  ELSE None)
    IN IF k > Len(exports) THEN [panic |-> FALSE, exported |-> exported]
       ELSE Strip(StripPrefix(exports[k].name, package.name \o <<"/">>),
                  IF package.version.some
                  THEN <<"@">> \o VersionDisplay(package.version.val)
                  ELSE <<>>)

\* The import names the re-scan visits for one package: uses first, then the
\* imports of instance kind.
PackageImportNames(package) ==
    LET f == Fixtures[package.fx]
    IN f.uses \o [k \in 1..Len(SelectSeq(f.imports, LAMBDA x : x.kind = "Instance")) |->
                    SelectSeq(f.imports, LAMBDA x : x.kind = "Instance")[k].name]

\* The whole re-scan as the sequence of calls import(package_id, import_name)
RECURSIVE ScanItems(_, _)
ScanItems(pkgs, k) ==
    IF k > Len(pkgs) THEN <<>>
    ELSE [j \in 1..Len(PackageImportNames(pkgs[k])) |->
             <<k - 1, PackageImportNames(pkgs[k])[j]>>]
         \o ScanItems(pkgs, k + 1)

\* The closure `import`: parse, drop local paths, push the foreign path
import(imported, package_id, import_name) ==
    LET PushForeign(foreign) ==
            IF foreign.some
            THEN [ok |-> TRUE,
                  imported |-> FnPut(imported, package_id,
                      Append(IF package_id \in DOMAIN imported
                             THEN imported[package_id] ELSE <<>>,
                             foreign.val))]
            ELSE [ok |-> TRUE, imported |-> imported]
        Parsed(parsed) ==
            IF ~parsed.ok
            THEN [ok |-> FALSE, interface |-> import_name, source |-> parsed.err,
                  imported |-> imported]
            ELSE PushForeign(into_foreign(parsed.path))
    IN Parsed(InterfacePath_from_str(import_name))

RECURSIVE ScanImports(_, _, _)
ScanImports(imported, items, k) ==
    LET Imported(r) == IF ~r.ok THEN r ELSE ScanImports(r.imported, items, k + 1)
    IN IF k > Len(items) THEN [ok |-> TRUE, imported |-> imported]
       ELSE Imported(import(imported, items[k][1], items[k][2]))

\* add_package(name, version, bytes, trampoline): the returned value and the
\* graph afterwards.
add_package(g, name, version, fx, trampoline) ==
    LET Scanned(package_id, g3, sc) ==
            IF ~sc.ok
            THEN [status |-> "ImportParseError", interface |-> sc.interface,
                  source |-> sc.source,
                  graph |-> [g3 EXCEPT !.imported_interfaces = sc.imported]]
            ELSE [status |-> "Ok", id |-> package_id,
                  graph |-> [g3 EXCEPT !.imported_interfaces = sc.imported]]
        Scan(package_id, g3) ==
            Scanned(package_id, g3,
                    ScanImports(g3.imported_interfaces, ScanItems(g3.packages, 1), 1))
        Indexed(package_id, g2, ix) ==
            IF ix.panic
            THEN [status |-> "panic",
                  graph |-> [g2 EXCEPT !.exported_interfaces = ix.exported]]
            ELSE Scan(package_id, [g2 EXCEPT !.exported_interfaces = ix.exported])
        Index(package, package_id, g2) ==
            Indexed(package_id, g2,
                    IndexExports(g2.exported_interfaces, package, package_id,
                                 trampoline, 1))
        Inserted(package, package_id, g1, ti) ==
            IF ~ti.ok
            THEN [status |-> "DuplicatePackage", name |-> name,
                  version |-> ti.err[1], graph |-> g1]
            ELSE Index(package, package_id,
                       [g1 EXCEPT !.package_map = FnPut(@, name, ti.map)])
        Entry(package, ins, pm1) ==
            Inserted(package, ins.id,
                     [g EXCEPT !.packages = ins.packages, !.package_map = pm1],
                     try_insert(pm1[name], version, ins.id))
        FromBytes(parsed) ==
            IF ~parsed.ok
            THEN [status |-> "PackageParseError", graph |-> g]
            ELSE Entry(parsed.package,
                       packages_insert(g.packages, parsed.package),
                       IF name \in DOMAIN g.package_map THEN g.package_map
                       ELSE FnPut(g.package_map, name, EmptyVersionMap))
    IN FromBytes(Package_from_bytes(name, version, fx))

\* ------------------------------------------------------------------------
\* CompositionGraph::package_load_order (src/src/graph.rs)
\* ------------------------------------------------------------------------
Reverse(q) == [k \in 1..Len(q) |-> q[Len(q) + 1 - k]]

InSeq(q, x) == \E k \in 1..Len(q) : q[k] = x

\* IndexSet::get_index_of (1-based here), 0 when absent
IndexOf(q, x) == IF InSeq(q, x) THEN CHOOSE k \in 1..Len(q) : q[k] = x ELSE 0

\* IndexSet::insert: append unless already a member
IndexSetInsert(q, x) == IF InSeq(q, x) THEN q ELSE Append(q, x)

\* IndexSet::extend
RECURSIVE IndexSetExtend(_, _)
IndexSetExtend(q, xs) ==
    IF Len(xs) = 0 THEN q ELSE IndexSetExtend(IndexSetInsert(q, xs[1]), Tail(xs))

\* A traversal that never takes a finished package off the load stack
DrainInto_Keep(load_order, load_stack, offset) ==
    [load_order |-> load_order, load_stack |-> load_stack]

\* load_order.extend(load_stack.drain(offset..).rev())
DrainInto(load_order, load_stack, offset) ==
    [load_order |-> IndexSetExtend(load_order,
                        Reverse(SubSeq(load_stack, offset + 1, Len(load_stack)))),
     load_stack |-> SubSeq(load_stack, 1, offset)]

PackageNameOrUnknown(g, id) ==
    IF packages_get(g.packages, id).some THEN packages_get(g.packages, id).val.name
    ELSE <<"{", "{", "U", "N", "K", "N", "O", "W", "N", "}", "}">>

\* The chain without skipping to the first occurrence
CycleChain_NoSkip(g, load_stack, cycle_start, package_id) ==
    LET cycle == Append(load_stack, package_id)
    IN [k \in 1..Len(cycle) |-> PackageNameOrUnknown(g, cycle[k])]

\* The chain reported by PackageCycle: the load stack from the first
\* occurrence of package_id, then package_id again, as package names.
CycleChain(g, load_stack, cycle_start, package_id) ==
    LET cycle == Append(SubSeq(load_stack, cycle_start, Len(load_stack)), package_id)
    IN [k \in 1..Len(cycle) |-> PackageNameOrUnknown(g, cycle[k])]

\* Resolution that reports an unknown name as an unresolvable version
ResolveImport_WrongError(g, imp) ==
    LET Versioned(import_package) ==
            IF ~import_package.some
            THEN [ok |-> FALSE,
                  err |-> [kind |-> "CannotResolvePackageVersion",
                           name |-> imp.package_name, version |-> imp.version]]
            ELSE [ok |-> TRUE, package |-> import_package.val]
    IN IF imp.package_name \notin DOMAIN g.package_map
       THEN [ok |-> FALSE,
             err |-> [kind |-> "CannotResolvePackageVersion",
                      name |-> imp.package_name, version |-> imp.version]]
       ELSE Versioned(get_or_latest(g.package_map[imp.package_name], imp.version))

\* Resolution of one import against package_map
ResolveImport(g, imp) ==
    LET Versioned(import_package) ==
            IF ~import_package.some
            THEN [ok |-> FALSE,
                  err |-> [kind |-> "CannotResolvePackageVersion",
                           name |-> imp.package_name, version |-> imp.version]]
            ELSE [ok |-> TRUE, package |-> import_package.val]
    IN IF imp.package_name \notin DOMAIN g.package_map
       THEN [ok |-> FALSE,
             err |-> [kind |-> "MissingPackageDependency",
                      package_name |-> imp.package_name]]
       ELSE Versioned(get_or_latest(g.package_map[imp.package_name], imp.version))

\* The entry kept as a list that takes every name again
InterfacesInsert_Push(interfaces, id, name) ==
    FnPut(interfaces, id,
          Append(IF id \in DOMAIN interfaces THEN interfaces[id] ELSE <<>>, name))

\* interfaces.entry(id).or_default().insert(name)
InterfacesInsert(interfaces, id, name) ==
    FnPut(interfaces, id,
          IndexSetInsert(IF id \in DOMAIN interfaces THEN interfaces[id] ELSE <<>>, name))

\* The `for import in imports` loop of one popped package
RECURSIVE ImportLoop(_, _, _, _)
ImportLoop(g, imports, k, st) ==
    LET Pushed(r) ==
            [st EXCEPT
               !.package_stack = Append(@, <<r.package, Len(st.load_stack)>>),
               !.interfaces = InterfacesInsert(@, r.package,
                                               imports[k].interface_name),
               !.resolved = Append(@, <<imports[k], r.package>>)]
        \* the locals after the push are computed once, then the loop goes on
        Push(r) ==
            IF ~r.ok THEN [ok |-> FALSE, err |-> r.err, st |-> st]
            ELSE CHOOSE out \in {ImportLoop(g, imports, k + 1, st1) :
                                    st1 \in {Pushed(r)}} : TRUE
    IN IF k > Len(imports) THEN [ok |-> TRUE, st |-> st]
       ELSE Push(ResolveImport(g, imports[k]))

\* The load stack chained without reversing it
LoadOrderFinish_NoReverse(load_order, load_stack) == load_order \o load_stack

\* The value package_load_order returns on success
LoadOrderFinish(load_order, load_stack) == load_order \o Reverse(load_stack)

\* A turn that expands a package again although it is in the load order
LoadTurn_Revisit(g, st) ==
    LET Imports(r) ==
            IF ~r.ok
            THEN [ok |-> FALSE, err |-> r.err,
                  interfaces |-> r.st.interfaces, resolved |-> r.st.resolved,
                  visits |-> r.st.visits]
            ELSE [ok |-> TRUE, st |-> r.st]
        Visit(package_id, st1) ==
            CHOOSE out \in
                {Imports(r) : r \in
                    {ImportLoop(g,
                         IF package_id \in DOMAIN g.imported_interfaces
                         THEN g.imported_interfaces[package_id] ELSE <<>>,
                         1, st2) :
                       st2 \in {[st1 EXCEPT !.load_stack = Append(@, package_id),
                                            !.visits = Append(@, package_id)]}}} :
                TRUE
        Popped(package_id, d, st1, cycle_start) ==
            IF cycle_start # 0
            THEN [ok |-> FALSE,
                  err |-> [kind |-> "PackageCycle",
                           cycle |-> CycleChain(g, d.load_stack, cycle_start,
                                                package_id)],
                  path |-> d.load_stack, again |-> package_id,
                  interfaces |-> st.interfaces, resolved |-> st.resolved,
                  visits |-> st.visits]
            ELSE Visit(package_id, st1)
        Drained(package_id, d) ==
            Popped(package_id, d,
                   [st EXCEPT !.package_stack = SubSeq(@, 1, Len(@) - 1),
                              !.load_order = d.load_order,
                              !.load_stack = d.load_stack],
                   IndexOf(d.load_stack, package_id))
        PopPackage(top) ==
            Drained(top[1], DrainInto(st.load_order, st.load_stack, top[2]))
    IN PopPackage(st.package_stack[Len(st.package_stack)])

\* One turn of the `while let Some(..) = package_stack.pop()` loop on a
\* non-empty package_stack: the state the next turn starts from (ok), or the
\* error the function returns.
LoadTurn(g, st) ==
    LET Imports(r) ==
            IF ~r.ok
            THEN [ok |-> FALSE, err |-> r.err,
                  interfaces |-> r.st.interfaces, resolved |-> r.st.resolved,
                  visits |-> r.st.visits]
            ELSE [ok |-> TRUE, st |-> r.st]
        Visit(package_id, st1) ==
            CHOOSE out \in
                {Imports(r) : r \in
                    {ImportLoop(g,
                         IF package_id \in DOMAIN g.imported_interfaces
                         THEN g.imported_interfaces[package_id] ELSE <<>>,
                         1, st2) :
                       st2 \in {[st1 EXCEPT !.load_stack = Append(@, package_id),
                                            !.visits = Append(@, package_id)]}}} :
                TRUE
        Popped(package_id, d, st1, cycle_start) ==
            IF cycle_start # 0
            THEN [ok |-> FALSE,
                  err |-> [kind |-> "PackageCycle",
                           cycle |-> CycleChain(g, d.load_stack, cycle_start,
                                                package_id)],
                  path |-> d.load_stack, again |-> package_id,
                  interfaces |-> st.interfaces, resolved |-> st.resolved,
                  visits |-> st.visits]
            ELSE IF InSeq(d.load_order, package_id)
            THEN [ok |-> TRUE, st |-> st1]
            ELSE Visit(package_id, st1)
        Drained(package_id, d) ==
            Popped(package_id, d,
                   [st EXCEPT !.package_stack = SubSeq(@, 1, Len(@) - 1),
                              !.load_order = d.load_order,
                              !.load_stack = d.load_stack],
                   IndexOf(d.load_stack, package_id))
        PopPackage(top) ==
            Drained(top[1], DrainInto(st.load_order, st.load_stack, top[2]))
    IN PopPackage(st.package_stack[Len(st.package_stack)])

\* The `while let Some(..) = package_stack.pop()` loop, and the value
\* returned once package_stack is empty
RECURSIVE LoadLoop(_, _)
LoadLoop(g, st) ==
    LET Turned(r) == IF r.ok THEN LoadLoop(g, r.st) ELSE r
    IN IF Len(st.package_stack) = 0
       THEN [ok |-> TRUE, order |-> LoadOrderFinish(st.load_order, st.load_stack),
             interfaces |-> st.interfaces, resolved |-> st.resolved,
             visits |-> st.visits]
       ELSE Turned(LoadTurn(g, st))

\* The locals of package_load_order before the first turn of the loop
LoadStart(origin) ==
    [package_stack |-> <<<<origin, 0>>>>, load_order |-> <<>>,
     load_stack |-> <<>>, interfaces |-> <<>>, resolved |-> <<>>,
     visits |-> <<>>]

\* package_load_order(origin, interfaces).  Besides the returned order (or
\* error) and the accumulated interface sets, the result records the imports
\* resolved so far (`resolved`) and the packages put on the load stack
\* (`visits`).
package_load_order(g, origin) == LoadLoop(g, LoadStart(origin))

\* ------------------------------------------------------------------------
\* CompositionGraph::instantiate / instantiate_async (src/src/graph.rs)
\* ------------------------------------------------------------------------
\* The runtime is external: `fault` names the one runtime call that fails
\* (None: no call fails), as [kind, pkg] with kind one of "compile"
\* (Component::new), "instantiate" (Linker::instantiate[_async]),
\* "linker_instance" (Linker::instance), "func_new" (func_new[_async]).
Hits(fault, kind, pkg) == fault.some /\ fault.val.kind = kind /\ fault.val.pkg = pkg

\* A blocking shadower that installs a shim for either kind of trampoline
SyncInstanceShadower_AcceptsAsync(instance, export_name, shadow, trampoline, faulty) ==
    IF faulty THEN [ok |-> FALSE, err |-> "LinkFuncInstantiationError"]
    ELSE [ok |-> TRUE,
          event |-> [ev |-> "func_new", instance |-> instance,
                     func |-> export_name, pkg |-> shadow,
                     trampoline |-> trampoline]]

\* SyncInstanceShadower::shadow_func
SyncInstanceShadower_shadow_func(instance, export_name, shadow, trampoline, faulty) ==
    IF trampoline.kind = "Sync"
    THEN IF faulty THEN [ok |-> FALSE, err |-> "LinkFuncInstantiationError"]
         ELSE [ok |-> TRUE,
               event |-> [ev |-> "func_new", instance |-> instance,
                          func |-> export_name, pkg |-> shadow,
                          trampoline |-> trampoline]]
    ELSE [ok |-> FALSE, err |-> "InvalidTrampolineSynchronicity"]

\* A suspending shadower that refuses a Sync trampoline
AsyncInstanceShadower_RejectsSync(instance, export_name, shadow, trampoline, faulty) ==
    IF trampoline.kind = "Sync"
    THEN [ok |-> FALSE, err |-> "InvalidTrampolineSynchronicity"]
    ELSE IF faulty THEN [ok |-> FALSE, err |-> "LinkFuncInstantiationError"]
    ELSE [ok |-> TRUE,
          event |-> [ev |-> "func_new_async", instance |-> instance,
                     func |-> export_name, pkg |-> shadow,
                     trampoline |-> trampoline]]

\* AsyncInstanceShadower::shadow_func
AsyncInstanceShadower_shadow_func(instance, export_name, shadow, trampoline, faulty) ==
    IF faulty THEN [ok |-> FALSE, err |-> "LinkFuncInstantiationError"]
    ELSE [ok |-> TRUE,
          event |-> [ev |-> IF trampoline.kind = "Sync" THEN "func_new"
                            ELSE "func_new_async",
                     instance |-> instance, func |-> export_name, pkg |-> shadow,
                     trampoline |-> trampoline]]

\* Installation that uses the blocking shadower in either mode
shadow_func_AlwaysBlocking(mode, instance, export_name, shadow, trampoline, faulty) ==
    SyncInstanceShadower_shadow_func(instance, export_name, shadow, trampoline, faulty)

\* InstanceShadower::shadow_func of the shadower the mode selects
shadow_func(mode, instance, export_name, shadow, trampoline, faulty) ==
    IF mode = "sync"
    THEN SyncInstanceShadower_shadow_func(instance, export_name, shadow, trampoline, faulty)
    ELSE AsyncInstanceShadower_shadow_func(instance, export_name, shadow, trampoline, faulty)

\* The loop stopping after the first function
ShadowFuncs_FirstOnly(mode, fault, shadow, full_name, trampoline, funcs, k, log) ==
    LET Installed(r) ==
            IF ~r.ok THEN [ok |-> FALSE, err |-> r.err, log |-> log]
            ELSE [ok |-> TRUE, log |-> Append(log, r.event)]
    IN IF k > Len(funcs) THEN [ok |-> TRUE, log |-> log]
       ELSE Installed(shadow_func(mode, full_name, funcs[k], shadow, trampoline,
                                  Hits(fault, "func_new", shadow)))

\* The loop over the functions of one interface in shadow_package
RECURSIVE ShadowFuncs(_, _, _, _, _, _, _, _)
ShadowFuncs(mode, fault, shadow, full_name, trampoline, funcs, k, log) ==
    LET Installed(r) ==
            IF ~r.ok THEN [ok |-> FALSE, err |-> r.err, log |-> log]
            ELSE ShadowFuncs(mode, fault, shadow, full_name, trampoline, funcs,
                             k + 1, Append(log, r.event))
    IN IF k > Len(funcs) THEN [ok |-> TRUE, log |-> log]
       ELSE Installed(shadow_func(mode, full_name, funcs[k], shadow, trampoline,
                                  Hits(fault, "func_new", shadow)))

\* Instance::get_export(None, name) on the live instance of a package
InstanceHasExport(package, full_name) ==
    \E k \in 1..Len(Fixtures[package.fx].exports) :
        Fixtures[package.fx].exports[k].name = full_name

\* shadow_package: the loop over the required interfaces of one shadow
RECURSIVE shadow_package(_, _, _, _, _, _, _, _)
shadow_package(g, mode, fault, shadow, package, interfaces, k, log) ==
    LET Shadowed(r) ==
            IF ~r.ok THEN r
            ELSE shadow_package(g, mode, fault, shadow, package, interfaces, k + 1,
                                r.log)
        Shadow(interface_full_name, interface_export) ==
            Shadowed(ShadowFuncs(mode, fault, shadow, interface_full_name,
                         interface_export.trampoline,
                         Fixtures[interface_export.interface[1]]
                             .exports[interface_export.interface[2]].funcs,
                         1,
                         Append(log, [ev |-> "linker_instance",
                                      instance |-> interface_full_name,
                                      pkg |-> shadow])))
        Interface(interface_path, interface_full_name) ==
            IF ~InstanceHasExport(package, interface_full_name)
            THEN [ok |-> FALSE, err |-> "InstanceMissingInterfaceExport", log |-> log]
            ELSE IF interface_path \notin DOMAIN g.exported_interfaces
            THEN [ok |-> FALSE, err |-> "MissingInterfaceExport", log |-> log]
            ELSE IF Hits(fault, "linker_instance", shadow)
            THEN [ok |-> FALSE, err |-> "LinkerInstanceError", log |-> log]
            ELSE Shadow(interface_full_name, g.exported_interfaces[interface_path])
        Path(interface_path) ==
            Interface(interface_path, ForeignInterfacePath_display(interface_path))
    IN IF k > Len(interfaces) THEN [ok |-> TRUE, log |-> log]
       ELSE Path(ForeignInterfacePath_new(package.name, interfaces[k],
                                          package.version))

\* instantiate_shadowed_package[_async]
instantiate_shadowed_package(g, mode, fault, shadow, package, interfaces, log) ==
    IF Hits(fault, "compile", shadow)
    THEN [ok |-> FALSE, err |-> "ComponentInstantiationError", log |-> log]
    ELSE IF Hits(fault, "instantiate", shadow)
    THEN [ok |-> FALSE, err |-> "ComponentInstantiationError",
          log |-> Append(log, [ev |-> "compile", pkg |-> shadow])]
    ELSE shadow_package(g, mode, fault, shadow, package, interfaces, 1,
             log \o <<[ev |-> "compile", pkg |-> shadow],
                      [ev |-> "instantiate", pkg |-> shadow, role |-> "shadow"]>>)

RECURSIVE ShadowLoop(_, _, _, _, _, _, _, _)
\* The loop handing back an error without the calls already made on the linker
ShadowLoop_RollsBack(g, mode, fault, package_id, load_order, interfaces, k, log) ==
    LET Instantiated(shadow, r) ==
            IF ~r.ok
            THEN [ok |-> FALSE,
                  result |-> [status |-> "InstantiatePackageDependencyError",
                              name |-> shadow.name,
                              version |-> shadow.version,
                              source |-> r.err],
                  log |-> <<>>]
            ELSE ShadowLoop(g, mode, fault, package_id, load_order, interfaces,
                            k + 1, r.log)
        Shadow(shadow_package_id, shadow) ==
            IF ~shadow.some
            THEN [ok |-> FALSE,
                  result |-> [status |-> "PackageNotFound", id |-> shadow_package_id],
                  log |-> log]
            ELSE Instantiated(shadow.val,
                     instantiate_shadowed_package(g, mode, fault, shadow_package_id,
                         shadow.val,
                         IF shadow_package_id \in DOMAIN interfaces
                         THEN interfaces[shadow_package_id] ELSE <<>>,
                         log))
    IN IF k > Len(load_order) \/ load_order[k] = package_id
       THEN [ok |-> TRUE, log |-> log]
       ELSE Shadow(load_order[k], packages_get(g.packages, load_order[k]))

\* The `for shadow_package_id in load_order` loop
ShadowLoop(g, mode, fault, package_id, load_order, interfaces, k, log) ==
    LET Instantiated(shadow, r) ==
            IF ~r.ok
            THEN [ok |-> FALSE,
                  result |-> [status |-> "InstantiatePackageDependencyError",
                              name |-> shadow.name,
                              version |-> shadow.version,
                              source |-> r.err],
                  log |-> r.log]
            ELSE ShadowLoop(g, mode, fault, package_id, load_order, interfaces,
                            k + 1, r.log)
        Shadow(shadow_package_id, shadow) ==
            IF ~shadow.some
            THEN [ok |-> FALSE,
                  result |-> [status |-> "PackageNotFound", id |-> shadow_package_id],
                  log |-> log]
            ELSE Instantiated(shadow.val,
                     instantiate_shadowed_package(g, mode, fault, shadow_package_id,
                         shadow.val,
                         IF shadow_package_id \in DOMAIN interfaces
                         THEN interfaces[shadow_package_id] ELSE <<>>,
                         log))
    IN IF k > Len(load_order) \/ load_order[k] = package_id
       THEN [ok |-> TRUE, log |-> log]
       ELSE Shadow(load_order[k], packages_get(g.packages, load_order[k]))

\* A body that compiles the target before it looks at the outcome of
\* dependency resolution
instantiate_after_load_CompileFirst(g, package_id, mode, fault, load) ==
    [result |-> IF load.ok THEN [status |-> "PackageNotFound", id |-> package_id]
                ELSE [status |-> "LoadPackageError", source |-> load.err],
     log |-> <<[ev |-> "compile", pkg |-> package_id]>>,
     load |-> load]

\* The body of instantiate / instantiate_async after dependency resolution
\* returned `load`.
instantiate_after_load(g, package_id, mode, fault, load) ==
    LET Target(r) ==
            IF ~r.ok
            THEN [result |-> r.result, log |-> r.log, load |-> load]
            ELSE IF Hits(fault, "instantiate", package_id)
            THEN [result |-> [status |-> "ComponentInstantiationError"],
                  log |-> r.log, load |-> load]
            ELSE [result |-> [status |-> "Ok", instance |-> package_id],
                  log |-> Append(r.log, [ev |-> "instantiate", pkg |-> package_id,
                                         role |-> "target"]),
                  load |-> load]
    IN IF ~load.ok
       THEN [result |-> [status |-> "LoadPackageError", source |-> load.err],
             log |-> <<>>, load |-> load]
       ELSE IF ~packages_get(g.packages, package_id).some
       THEN [result |-> [status |-> "PackageNotFound", id |-> package_id],
             log |-> <<>>, load |-> load]
       ELSE IF Hits(fault, "compile", package_id)
       THEN [result |-> [status |-> "ComponentInstantiationError"],
             log |-> <<>>, load |-> load]
       ELSE Target(ShadowLoop(g, mode, fault, package_id, load.order,
                              load.interfaces, 1,
                              <<[ev |-> "compile", pkg |-> package_id]>>))

\* instantiate that takes the origin's imports out of imported_interfaces
\* instead of reading them
instantiate_TakesImports(g, package_id, mode, fault) ==
    instantiate_after_load(g, package_id, mode, fault,
                           package_load_order(g, package_id))
      @@ [graph |-> [g EXCEPT !.imported_interfaces = FnDel(@, package_id)]]

\* instantiate (mode "sync") / instantiate_async (mode "async"): the returned
\* value, the calls made on the runtime and linker in order (`log`), the
\* outcome of dependency resolution (`load`), and the graph afterwards (no
\* statement of either function writes a field of the graph).
instantiate(g, package_id, mode, fault) ==
    instantiate_after_load(g, package_id, mode, fault,
                           package_load_order(g, package_id))
      @@ [graph |-> g]

\* ------------------------------------------------------------------------
\* State
\* ------------------------------------------------------------------------
VARIABLES
    vm,        \* a stand-alone VersionMap<T>
    vmOp,      \* the last operation applied to vm and what it returned
    graph,     \* the CompositionGraph
    nAdds,     \* number of add_package calls made
    added,     \* the last add_package call and what it returned
    inst,      \* the instantiate call made on the current graph, if any
    frames,    \* shim invocations in progress, innermost last
    trace,     \* what the shim invocations did, in order
    nCalls,    \* number of shim invocations started
    import_filter,  \* the import filter of the graph, if one was set
    ruled,     \* a stand-alone filter evaluation: its inputs and its result
    pt,        \* a stand-alone PackageTrampoline<T, C>
    ptOp,      \* the last operation applied to pt and what it returned
    pathOp,    \* a stand-alone interface path parse: the string and the result
    store,     \* the data of the store the shim invocations run on
    run        \* a package_load_order call in progress: its locals, then its result

vars == <<vm, vmOp, graph, nAdds, added, inst, frames, trace, nCalls,
          import_filter, ruled, pt, ptOp, pathOp, store, run>>

ptVars == <<pt, ptOp>>

filterVars == <<import_filter, ruled>>

callVars == <<frames, trace, nCalls, store>>

vmVars == <<vm, vmOp>>

graphVars == <<graph, nAdds, added, inst>>

\* ------------------------------------------------------------------------
\* Stand-alone VersionMap: inputs and operations
\* ------------------------------------------------------------------------
\* The versions offered to the map.  The plain releases put several versions
\* in each class of version_alternate (major > 0, major = 0 with minor > 0,
\* 0.0.patch); the pre-releases and the build-tagged version share their
\* major.minor.patch with a plain release.
VmVersions ==
    {VersionNew(0, 0, 0), VersionNew(0, 0, 1), VersionNew(0, 1, 0), VersionNew(0, 1, 1),
     VersionNew(1, 0, 0), VersionNew(1, 0, 1), VersionNew(1, 1, 0),
     Ver(0, 0, 0, <<"a">>, <<>>), Ver(1, 0, 0, <<"a">>, <<>>),
     Ver(1, 0, 0, <<>>, <<"b">>)}

\* Two distinguishable stored values.
VmValues == {1, 2}

VmCanGrow(v) == v \in DOMAIN vm.versions \/ Cardinality(DOMAIN vm.versions) < MaxEntries

Init ==
    /\ vm = EmptyVersionMap
    /\ vmOp = [op |-> "new"]
    /\ graph = EmptyGraph
    /\ nAdds = 0
    /\ added = [status |-> "none"]
    /\ inst = [called |-> FALSE]
    /\ frames = <<>>
    /\ trace = <<>>
    /\ nCalls = 0
    /\ store = AppData_default
    /\ run = [phase |-> "idle"]
    /\ import_filter = None
    /\ ruled = [op |-> "none", done |-> TRUE]
    /\ pt = SyncTrampoline
    /\ ptOp = [op |-> "new"]
    /\ pathOp = [op |-> "none", done |-> TRUE]

VmTryInsert ==
    \E v \in VmVersions, t \in VmValues :
        /\ VmCanGrow(v)
        /\ LET r == try_insert(vm, v, t)
           IN /\ vm' = r.map
              /\ vmOp' = [op |-> "try_insert", ver |-> v, val |-> t, ok |-> r.ok,
                           err |-> IF r.ok THEN None ELSE Some(r.err)]
        /\ UNCHANGED <<run, ptVars, pathOp, filterVars, graphVars, callVars>>

VmInsert ==
    \E v \in VmVersions, t \in VmValues :
        /\ VmCanGrow(v)
        /\ LET r == insert(vm, v, t)
           IN /\ vm' = r.map
              /\ vmOp' = [op |-> "insert", ver |-> v, val |-> t, res |-> r.old]
        /\ UNCHANGED <<run, ptVars, pathOp, filterVars, graphVars, callVars>>

VmRemove ==
    \E v \in VmVersions :
        /\ LET r == remove(vm, v)
           IN /\ vm' = r.map
              /\ vmOp' = [op |-> "remove", ver |-> v, res |-> r.old]
        /\ UNCHANGED <<run, ptVars, pathOp, filterVars, graphVars, callVars>>

VmClear ==
    /\ vm' = clear(vm)
    /\ vmOp' = [op |-> "clear"]
    /\ UNCHANGED <<run, ptVars, pathOp, filterVars, graphVars, callVars>>

VmGet ==
    \E v \in VmVersions :
        /\ vmOp' = [op |-> "get", ver |-> v, res |-> get(vm, v)]
        /\ UNCHANGED <<run, ptVars, pathOp, filterVars, vm, graphVars, callVars>>

VmGetExact ==
    \E v \in VmVersions :
        /\ vmOp' = [op |-> "get_exact", ver |-> v, res |-> get_exact(vm, v)]
        /\ UNCHANGED <<run, ptVars, pathOp, filterVars, vm, graphVars, callVars>>

VmGetOrLatest ==
    \E q \in {None} \cup {Some(v) : v \in VmVersions} :
        /\ vmOp' = [op |-> "get_or_latest", query |-> q, res |-> get_or_latest(vm, q)]
        /\ UNCHANGED <<run, ptVars, pathOp, filterVars, vm, graphVars, callVars>>

VmNext ==
    \/ VmTryInsert
    \/ VmInsert
    \/ VmRemove
    \/ VmClear
    \/ VmGet
    \/ VmGetExact
    \/ VmGetOrLatest

SpecVM == Init /\ [][VmNext]_vars

\* ------------------------------------------------------------------------
\* The composition graph: operations
\* ------------------------------------------------------------------------
\* add_package(name, version, bytes, trampoline) of component fx
AddPackageWith(fx, trampoline) ==
    /\ nAdds < MaxAdds
    /\ \E r \in {add_package(graph, Fixtures[fx].name, Fixtures[fx].version, fx,
                             trampoline)} :
           /\ graph' = r.graph
           /\ added' = [x \in (DOMAIN r) \ {"graph"} |-> r[x]] @@ [fx |-> fx]
    /\ nAdds' = nAdds + 1
    /\ inst' = [called |-> FALSE]
    /\ UNCHANGED <<run, ptVars, pathOp, filterVars, vmVars, callVars>>

\* add_package with one of the offered components
AddPackage == \E fx \in GraphFixtures : AddPackageWith(fx, Fixtures[fx].trampoline)

FaultKinds == {"compile", "instantiate", "linker_instance", "func_new"}

\* The runtime faults an instantiate call may meet: none, or one failing
\* runtime call on a package of the load order (a fault on any other package
\* is never met).
Faults(load) ==
    {None} \cup
    (IF load.ok
     THEN {Some([kind |-> k, pkg |-> load.order[i]]) :
              k \in FaultKinds, i \in 1..Len(load.order)}
     ELSE {})

\* instantiate / instantiate_async with one runtime fault (or none).  One
\* call is recorded per graph, in `inst`; the next add_package clears the
\* record.
InstantiateWith(package_id, mode, fault) ==
    /\ ~inst.called
    /\ \E r \in {instantiate(graph, package_id, mode, fault)} :
           /\ inst' = [called |-> TRUE, at |-> nAdds, id |-> package_id,
                       mode |-> mode, result |-> r.result,
                       log |-> r.log, load |-> r.load]
           /\ graph' = r.graph
    /\ UNCHANGED <<run, ptVars, pathOp, filterVars, nAdds, added, vmVars, callVars>>

\* instantiate / instantiate_async of any id, also one the slab does not hold
Instantiate ==
    \E package_id \in 0..Len(graph.packages), mode \in {"sync", "async"} :
        \E fault \in Faults(package_load_order(graph, package_id)) :
            InstantiateWith(package_id, mode, fault)

Next ==
    \/ AddPackage
    \/ Instantiate

Spec == Init /\ [][Next]_vars

\* ------------------------------------------------------------------------
\* The import filter of the graph (set_import_filter and the classification
\* of discovered imports)
\* ------------------------------------------------------------------------
\* set_import_filter(filter): the import_filter field afterwards
set_import_filter(filter) == Some(filter)

\* The rule of the graph's filter for a discovered import; without a filter
\* every import is Include
ClassifyImport(filter, path) ==
    IF filter.some THEN filter_rule(filter.val, path) ELSE ImportRule_default

\* A classification that records a Skip import like any other
import_with_filter_RecordsSkip(filter, imported, package_id, import_name) ==
    import(imported, package_id, import_name)

\* The closure `import` with the filter: a foreign path classified Skip is
\* not pushed; Include and Force paths are pushed as before
import_with_filter(filter, imported, package_id, import_name) ==
    LET Classified(foreign) ==
            IF foreign.some /\ ClassifyImport(filter, foreign.val) = "Skip"
            THEN [ok |-> TRUE, imported |-> imported]
            ELSE import(imported, package_id, import_name)
        Parsed(parsed) ==
            IF ~parsed.ok THEN import(imported, package_id, import_name)
            ELSE Classified(into_foreign(parsed.path))
    IN Parsed(InterfacePath_from_str(import_name))

RECURSIVE ScanImportsFiltered(_, _, _, _)
ScanImportsFiltered(filter, imported, items, k) ==
    LET Imported(r) ==
            IF ~r.ok THEN r
            ELSE ScanImportsFiltered(filter, r.imported, items, k + 1)
    IN IF k > Len(items) THEN [ok |-> TRUE, imported |-> imported]
       ELSE Imported(import_with_filter(filter, imported, items[k][1],
                                        items[k][2]))

\* add_package on a graph with a filter: as add_package, the re-scan placing
\* into imported_interfaces only what the filter lets through
add_package_filtered(g, filter, name, version, fx, trampoline) ==
    LET Rescanned(r, sc) ==
            [r EXCEPT !.graph.imported_interfaces = sc.imported]
        Added(r) ==
            IF r.status \in {"Ok", "ImportParseError"}
            THEN Rescanned(r, ScanImportsFiltered(filter, g.imported_interfaces,
                                  ScanItems(r.graph.packages, 1), 1))
            ELSE r
    IN Added(add_package(g, name, version, fx, trampoline))

\* The filters set on the graph: the runner's (one package prefix is supplied
\* by the host), an interface skipped whatever its version, and a list that
\* forces one package and skips the rest
GraphFilters ==
    {RegexMatchFilter_new([anchored |-> TRUE, literal |-> <<"b", "/">>],
                          ImportRuleFilter("Skip")),
     RegexMatchFilter_new([anchored |-> FALSE, literal |-> <<"a", "/", "i">>],
                          ImportRuleFilter("Skip")),
     VecFilter(<<RegexMatchFilter_new([anchored |-> TRUE, literal |-> <<"a", "/">>],
                                      ImportRuleFilter("Force")),
                 ImportRuleFilter("Skip")>>)}

\* set_import_filter on a new graph, before any package is added
SetImportFilter ==
    /\ nAdds = 0 /\ ~import_filter.some
    /\ \E filter \in GraphFilters : import_filter' = set_import_filter(filter)
    /\ UNCHANGED <<run, ptVars, pathOp, ruled, graphVars, vmVars, callVars>>

\* add_package on the graph with its filter
AddPackageFiltered ==
    /\ nAdds < MaxAdds
    /\ \E fx \in GraphFixtures :
         \E r \in {add_package_filtered(graph, import_filter, Fixtures[fx].name,
                       Fixtures[fx].version, fx, Fixtures[fx].trampoline)} :
           /\ graph' = r.graph
           /\ added' = [x \in (DOMAIN r) \ {"graph"} |-> r[x]] @@ [fx |-> fx]
    /\ nAdds' = nAdds + 1
    /\ inst' = [called |-> FALSE]
    /\ UNCHANGED <<run, ptVars, pathOp, filterVars, vmVars, callVars>>

\* instantiate / instantiate_async of a stored package, the runtime not failing
InstantiateFiltered ==
    \E package_id \in 0..(Len(graph.packages) - 1), mode \in {"sync", "async"} :
        InstantiateWith(package_id, mode, None)

NextFilter ==
    \/ SetImportFilter
    \/ AddPackageFiltered
    \/ InstantiateFiltered

SpecFilter == Init /\ [][NextFilter]_vars

\* ------------------------------------------------------------------------
\* Stand-alone filter evaluation: inputs and operations
\* ------------------------------------------------------------------------
\* Longest filter list offered
MaxFilters == 3

ImportRules == {"Skip", "Include", "Force"}

Regexes ==
    {[anchored |-> TRUE, literal |-> <<"a", "/">>],
     [anchored |-> FALSE, literal |-> <<"i", "@", "1">>],
     [anchored |-> FALSE, literal |-> <<"@", "2">>]}

FilterPaths ==
    {ForeignInterfacePath_new(<<"a">>, <<"i">>, Some(VersionNew(1, 0, 0))),
     ForeignInterfacePath_new(<<"a">>, <<"i">>, None),
     ForeignInterfacePath_new(<<"b">>, <<"i">>, Some(VersionNew(2, 0, 0))),
     ForeignInterfacePath_new(<<"i">>, <<"a">>, Some(VersionNew(1, 1, 0)))}

\* The filters a list is built from
FilterElements ==
    {ImportRuleFilter(r) : r \in ImportRules}
      \cup {RegexMatchFilter_new([anchored |-> TRUE, literal |-> <<"a", "/">>],
                                 ImportRuleFilter("Skip")),
            RegexMatchFilter_new([anchored |-> FALSE, literal |-> <<"i", "@", "1">>],
                                 ImportRuleFilter("Force")),
            RegexMatchFilter_with_default(
                [anchored |-> FALSE, literal |-> <<"@", "2">>],
                ImportRuleFilter("Include"), ImportRuleFilter("Skip"))}

FilterLists == UNION {[1..n -> FilterElements] : n \in 0..MaxFilters}

RuleInputs ==
    {[op |-> "vec", done |-> FALSE, filters |-> fs, path |-> p] :
        fs \in FilterLists, p \in FilterPaths}
      \cup {[op |-> "new", done |-> FALSE, regex |-> re, match_rule |-> m,
             path |-> p] :
               re \in Regexes, m \in ImportRules, p \in FilterPaths}
      \cup {[op |-> "with_default", done |-> FALSE, regex |-> re,
             match_rule |-> m, default_rule |-> d, path |-> p] :
               re \in Regexes, m \in ImportRules, d \in ImportRules,
               p \in FilterPaths}

InitRule ==
    /\ vm = EmptyVersionMap
    /\ vmOp = [op |-> "new"]
    /\ graph = EmptyGraph
    /\ nAdds = 0
    /\ added = [status |-> "none"]
    /\ inst = [called |-> FALSE]
    /\ frames = <<>>
    /\ trace = <<>>
    /\ nCalls = 0
    /\ store = AppData_default
    /\ run = [phase |-> "idle"]
    /\ import_filter = None
    /\ ruled \in RuleInputs
    /\ pt = SyncTrampoline
    /\ ptOp = [op |-> "new"]
    /\ pathOp = [op |-> "none", done |-> TRUE]

\* filters.filter_rule(path) on a Vec of filters
VecFilterRule ==
    /\ ruled.op = "vec" /\ ~ruled.done
    /\ \E r \in {Vec_filter_rule(ruled.filters, ruled.path, 1)} :
           ruled' = [ruled EXCEPT !.done = TRUE]
                      @@ [rule |-> r.rule, consulted |-> r.consulted]
    /\ UNCHANGED <<run, ptVars, pathOp, import_filter, graphVars, vmVars, callVars>>

\* RegexMatchFilter::new(regex, match_rule).filter_rule(path)
RegexNewFilterRule ==
    /\ ruled.op = "new" /\ ~ruled.done
    /\ ruled' = [ruled EXCEPT !.done = TRUE]
                  @@ [rule |-> filter_rule(
                                   RegexMatchFilter_new(ruled.regex,
                                       ImportRuleFilter(ruled.match_rule)),
                                   ruled.path)]
    /\ UNCHANGED <<run, ptVars, pathOp, import_filter, graphVars, vmVars, callVars>>

\* RegexMatchFilter::with_default(regex, match_rule, default_rule)
\*     .filter_rule(path)
RegexWithDefaultFilterRule ==
    /\ ruled.op = "with_default" /\ ~ruled.done
    /\ ruled' = [ruled EXCEPT !.done = TRUE]
                  @@ [rule |-> filter_rule(
                                   RegexMatchFilter_with_default(ruled.regex,
                                       ImportRuleFilter(ruled.match_rule),
                                       ImportRuleFilter(ruled.default_rule)),
                                   ruled.path)]
    /\ UNCHANGED <<run, ptVars, pathOp, import_filter, graphVars, vmVars, callVars>>

NextRule ==
    \/ VecFilterRule
    \/ RegexNewFilterRule
    \/ RegexWithDefaultFilterRule

SpecRule == InitRule /\ [][NextRule]_vars

\* ------------------------------------------------------------------------
\* Stand-alone PackageTrampoline: inputs and operations
\* ------------------------------------------------------------------------
\* Highest context value offered
MaxContext == 2

Contexts == 0..MaxContext

InterfaceNames == {<<"i">>, <<"j">>, <<"k">>}

PtSetDefaultContext ==
    /\ \E context \in Contexts :
           /\ pt' = set_default_context(pt, context)
           /\ ptOp' = [op |-> "set_default_context", context |-> context]
    /\ UNCHANGED <<run, pathOp, filterVars, graphVars, vmVars, callVars>>

PtSetInterfaceContext ==
    /\ \E interface_name \in InterfaceNames, context \in Contexts :
           /\ pt' = set_interface_context(pt, interface_name, context)
           /\ ptOp' = [op |-> "set_interface_context", name |-> interface_name,
                       context |-> context]
    /\ UNCHANGED <<run, pathOp, filterVars, graphVars, vmVars, callVars>>

PtRemoveInterfaceContext ==
    /\ \E interface_name \in InterfaceNames :
           /\ pt' = remove_interface_context(pt, interface_name)
           /\ ptOp' = [op |-> "remove_interface_context", name |-> interface_name]
    /\ UNCHANGED <<run, pathOp, filterVars, graphVars, vmVars, callVars>>

PtInterfaceTrampoline ==
    /\ \E interface_name \in InterfaceNames :
           ptOp' = [op |-> "interface_trampoline", name |-> interface_name,
                    res |-> interface_trampoline(pt, interface_name)]
    /\ UNCHANGED <<run, pt, pathOp, filterVars, graphVars, vmVars, callVars>>

NextTrampoline ==
    \/ PtSetDefaultContext
    \/ PtSetInterfaceContext
    \/ PtRemoveInterfaceContext
    \/ PtInterfaceTrampoline

SpecTrampoline == Init /\ [][NextTrampoline]_vars

\* ------------------------------------------------------------------------
\* Stand-alone interface path parsing: inputs and operations
\* ------------------------------------------------------------------------
\* Longest string offered, in pieces
MaxPieces == 5

PathPieces ==
    {<<"a">>, <<"/">>, <<"@">>, <<"1", ".", "0", ".", "0">>, <<"1", ".", "0">>,
     <<"-", "a">>, <<"+", "b">>}

RECURSIVE Concat(_)
Concat(pieces) ==
    IF Len(pieces) = 0 THEN <<>> ELSE pieces[1] \o Concat(Tail(pieces))

PathStrings ==
    {Concat(pieces) : pieces \in UNION {[1..n -> PathPieces] : n \in 1..MaxPieces}}

InitPath ==
    /\ vm = EmptyVersionMap
    /\ vmOp = [op |-> "new"]
    /\ graph = EmptyGraph
    /\ nAdds = 0
    /\ added = [status |-> "none"]
    /\ inst = [called |-> FALSE]
    /\ frames = <<>>
    /\ trace = <<>>
    /\ nCalls = 0
    /\ store = AppData_default
    /\ run = [phase |-> "idle"]
    /\ import_filter = None
    /\ ruled = [op |-> "none", done |-> TRUE]
    /\ pt = SyncTrampoline
    /\ ptOp = [op |-> "new"]
    /\ pathOp \in {[op |-> "from_str", done |-> FALSE, s |-> s] : s \in PathStrings}

\* InterfacePath::from_str(s), then to_string() of the parsed path
PathParseDisplay ==
    /\ ~pathOp.done
    /\ \E r \in {InterfacePath_from_str(pathOp.s)} :
           pathOp' = [op |-> "display", done |-> TRUE, s |-> pathOp.s, ok |-> r.ok,
                      res |-> r,
                      shown |-> IF r.ok THEN Some(InterfacePath_display(r.path))
                                ELSE None]
    /\ UNCHANGED <<run, ptVars, filterVars, graphVars, vmVars, callVars>>

\* InterfacePath::from_str(s), then into_foreign() and to_string() of the
\* foreign path
PathParseForeignDisplay ==
    /\ ~pathOp.done
    /\ \E r \in {InterfacePath_from_str(pathOp.s)} :
           pathOp' = [op |-> "foreign_display", done |-> TRUE, s |-> pathOp.s,
                      ok |-> r.ok, res |-> r,
                      shown |-> IF r.ok /\ into_foreign(r.path).some
                                THEN Some(ForeignInterfacePath_display(
                                              into_foreign(r.path).val))
                                ELSE None]
    /\ UNCHANGED <<run, ptVars, filterVars, graphVars, vmVars, callVars>>

NextPath ==
    \/ PathParseDisplay
    \/ PathParseForeignDisplay

SpecPath == InitPath /\ [][NextPath]_vars

\* ------------------------------------------------------------------------
\* Dependency resolution over catalogues with shared dependencies
\* ------------------------------------------------------------------------
\* Number of add_package calls in SpecLoad
MaxLoadAdds == 4

\* add_package with one of the components of LoadFixtures
LoadAddPackage ==
    /\ nAdds < MaxLoadAdds
    /\ \E fx \in LoadFixtures :
         \E r \in {add_package(graph, Fixtures[fx].name, Fixtures[fx].version, fx,
                                Fixtures[fx].trampoline)} :
           /\ graph' = r.graph
           /\ added' = [x \in (DOMAIN r) \ {"graph"} |-> r[x]] @@ [fx |-> fx]
    /\ nAdds' = nAdds + 1
    /\ inst' = [called |-> FALSE]
    /\ UNCHANGED <<run, ptVars, pathOp, filterVars, vmVars, callVars>>

\* instantiate / instantiate_async of a stored package, the runtime not failing
LoadInstantiate ==
    \E package_id \in 0..(Len(graph.packages) - 1), mode \in {"sync", "async"} :
        InstantiateWith(package_id, mode, None)

NextLoad ==
    \/ LoadAddPackage
    \/ LoadInstantiate

SpecLoad == Init /\ [][NextLoad]_vars

\* ------------------------------------------------------------------------
\* package_load_order turn by turn (src/src/graph.rs package_load_order)
\* ------------------------------------------------------------------------
\* add_package before the resolution starts: the graph is borrowed by the
\* running call and cannot change under it
RunAddPackage ==
    /\ run.phase = "idle"
    /\ LoadAddPackage

\* package_load_order is entered for a stored package
LoadEnter ==
    /\ run.phase = "idle"
    /\ \E origin \in 0..(Len(graph.packages) - 1) :
           run' = [phase |-> "loop", origin |-> origin, st |-> LoadStart(origin)]
    /\ UNCHANGED <<graphVars, ptVars, pathOp, filterVars, vmVars, callVars>>

\* One evaluation of the loop condition: a turn of the loop body, or the
\* return of the function
LoadStep ==
    /\ run.phase = "loop"
    /\ \E r \in {IF Len(run.st.package_stack) = 0
                 THEN LoadLoop(graph, run.st)
                 ELSE LoadTurn(graph, run.st)} :
           run' = IF Len(run.st.package_stack) # 0 /\ r.ok
                  THEN [run EXCEPT !.st = r.st]
                  ELSE [phase |-> "done", origin |-> run.origin, result |-> r]
    /\ UNCHANGED <<graphVars, ptVars, pathOp, filterVars, vmVars, callVars>>

NextLoadRun ==
    \/ RunAddPackage
    \/ LoadEnter
    \/ LoadStep

\* The function runs to its return once entered: sequential code, no await
SpecLoadRun == Init /\ [][NextLoadRun]_vars /\ WF_vars(LoadStep)

\* ------------------------------------------------------------------------
\* Calls through installed shims (src/src/graph.rs shim closures,
\* src/src/trampoline.rs call / post_return)
\* ------------------------------------------------------------------------
\* The runner's catalogue: logger, kvstore, application
Scenario == <<1, 3, 4>>

ScenarioAdd ==
    /\ nAdds < Len(Scenario)
    /\ \E trampoline \in {SyncTrampoline, AsyncTrampoline} :
           AddPackageWith(Scenario[nAdds + 1], trampoline)

ScenarioInstantiate ==
    /\ nAdds = Len(Scenario)
    /\ \E mode \in {"sync", "async"} : InstantiateWith(added.id, mode, None)

\* The shims the linker holds after the last instantiate call
IsShim(h) == inst.log[h].ev \in {"func_new", "func_new_async"}

\* The package whose code is running: the exporter of the innermost call in
\* progress, or the instantiated target
RunningPackage ==
    IF Len(frames) = 0 THEN inst.id ELSE inst.log[frames[Len(frames)].shim].pkg

\* The shims a package reaches through its imports
CallableShims(q) ==
    {h \in 1..Len(inst.log) :
        /\ IsShim(h)
        /\ q \in DOMAIN graph.imported_interfaces
        /\ \E n \in 1..Len(graph.imported_interfaces[q]) :
               \E r \in {ResolveImport(graph, graph.imported_interfaces[q][n])} :
                  /\ r.ok
                  /\ r.package = inst.log[h].pkg
                  /\ inst.log[h].instance =
                         ForeignInterfacePath_display(ForeignInterfacePath_new(
                             graph.packages[r.package + 1].name,
                             graph.imported_interfaces[q][n].interface_name,
                             graph.packages[r.package + 1].version))}

\* A closure that returns without running the finalizer
ShimAfterBounce_NoFinalizer(ok) == IF ok THEN "return_ok" ELSE "return_err"

\* The closure installed by shadow_func: what it does once bounce[_async]
\* returned, and once post_return[_async] returned.
ShimAfterBounce(ok) == IF ok THEN "post_return" ELSE "return_err"

ShimAfterPostReturn(ok) == IF ok THEN "return_ok" ELSE "return_err"

Top == frames[Len(frames)]

SetPc(pc) == frames' = [frames EXCEPT ![Len(frames)].pc = pc]

Pop == frames' = SubSeq(frames, 1, Len(frames) - 1)

Ev(ev) == [ev |-> ev, call |-> Top.call]

\* What the closure does with the value bounce returned
AfterBounce(ok, events, cause) ==
    IF ShimAfterBounce(ok) = "post_return"
    THEN /\ SetPc("post_return")
         /\ trace' = trace \o events \o <<Ev("post_return")>>
    ELSE IF ShimAfterBounce(ok) = "return_ok"
    THEN /\ Pop
         /\ trace' = trace \o events \o <<Ev("ret_ok")>>
    ELSE /\ Pop
         /\ trace' = trace \o events \o <<[ev |-> "ret_err", call |-> Top.call,
                                            cause |-> cause]>>

\* A component calls an imported function: the linker runs the shim, which
\* builds the GuestCall and enters the trampoline.
ShimInvoke ==
    /\ inst.called /\ inst.result.status = "Ok"
    /\ nCalls < MaxCalls
    /\ Len(frames) < MaxDepth
    /\ Len(frames) > 0 => Top.pc = "in_call"
    /\ \E h \in CallableShims(RunningPackage) :
           /\ frames' = Append(frames, [call |-> nCalls + 1, shim |-> h, pc |-> "bounce"])
           /\ trace' = Append(trace, [ev |-> "enter", call |-> nCalls + 1])
    /\ nCalls' = nCalls + 1
    /\ UNCHANGED <<run, ptVars, pathOp, filterVars, graphVars, vmVars, store>>

\* The trampoline invokes call() / call_async(): the exporter's function runs
TrampolineCall ==
    /\ Len(frames) > 0 /\ Top.pc = "bounce"
    /\ SetPc("in_call")
    /\ trace' = Append(trace, Ev("call"))
    /\ UNCHANGED <<run, ptVars, pathOp, filterVars, nCalls, graphVars, vmVars, store>>

\* The exporter's function returns; on Err, call() returns it and so does the
\* trampoline
ExporterReturn ==
    /\ Len(frames) > 0 /\ Top.pc = "in_call"
    /\ \E ok \in BOOLEAN :
           IF ok
           THEN /\ SetPc("called")
                /\ trace' = Append(trace, Ev("call_ok"))
           ELSE AfterBounce(FALSE, <<Ev("call_err")>>, "call")
    /\ UNCHANGED <<run, ptVars, pathOp, filterVars, nCalls, graphVars, vmVars, store>>

\* The trampoline returns Err without a GuestResult, before or after call()
TrampolineFail ==
    /\ Len(frames) > 0 /\ Top.pc \in {"bounce", "called"}
    /\ AfterBounce(FALSE, <<Ev("bounce_err")>>, "trampoline")
    /\ UNCHANGED <<run, ptVars, pathOp, filterVars, nCalls, graphVars, vmVars, store>>

\* A trampoline returning success without having invoked call()
TrampolineReturn_WithoutCall ==
    /\ Len(frames) > 0 /\ Top.pc \in {"bounce", "called"}
    /\ AfterBounce(TRUE, <<Ev("bounce_ok")>>, "none")
    /\ UNCHANGED <<run, ptVars, pathOp, filterVars, nCalls, graphVars, vmVars, store>>

\* The trampoline returns the GuestResult that call() produced
TrampolineReturn ==
    /\ Len(frames) > 0 /\ Top.pc = "called"
    /\ AfterBounce(TRUE, <<Ev("bounce_ok")>>, "none")
    /\ UNCHANGED <<run, ptVars, pathOp, filterVars, nCalls, graphVars, vmVars, store>>

\* post_return / post_return_async returns and the closure returns
PostReturnDone ==
    /\ Len(frames) > 0 /\ Top.pc = "post_return"
    /\ \E ok \in BOOLEAN :
           /\ Pop
           /\ trace' = Append(trace,
                  IF ShimAfterPostReturn(ok) = "return_ok" THEN Ev("ret_ok")
                  ELSE [ev |-> "ret_err", call |-> Top.call, cause |-> "post_return"])
    /\ UNCHANGED <<run, ptVars, pathOp, filterVars, nCalls, graphVars, vmVars, store>>

NextCall ==
    \/ ScenarioAdd
    \/ ScenarioInstantiate
    \/ ShimInvoke
    \/ TrampolineCall
    \/ ExporterReturn
    \/ TrampolineFail
    \/ TrampolineReturn
    \/ PostReturnDone

SpecCall == Init /\ [][NextCall]_vars

\* ------------------------------------------------------------------------
\* Calls through shims bound to the runner's PassthroughTrampoline
\* (src/tests/runner/src/bin/runner.rs, async-runner.rs)
\* ------------------------------------------------------------------------
\* An Err returned by a shim is a trap in the guest that called it: the
\* guest's own function then fails, and the runtime lets no trapped instance
\* be entered again.
Trapped == \E k \in 1..Len(trace) : trace[k].ev = "ret_err"

\* A component that has not trapped calls an imported function
RunnerShimInvoke == ~Trapped /\ ShimInvoke

\* bounce up to call(): report the depth, increment it, invoke call()
PassthroughBounce ==
    /\ Len(frames) > 0 /\ Top.pc = "bounce"
    /\ store' = PassthroughTrampoline_before_call(store)
    /\ SetPc("in_call")
    /\ trace' = trace \o <<[ev |-> "bounced_call", call |-> Top.call,
                             depth |-> store.stack_depth],
                            Ev("call")>>
    /\ UNCHANGED <<run, ptVars, pathOp, filterVars, nCalls, graphVars, vmVars>>

\* The exporter's function returns; it fails when a call it made trapped.
\* On Err, `call.call()?` returns from bounce without touching the depth.
RunnerExporterReturn ==
    /\ Len(frames) > 0 /\ Top.pc = "in_call"
    /\ \E ok \in (IF Trapped THEN {FALSE} ELSE BOOLEAN) :
           IF ok
           THEN /\ SetPc("called")
                /\ trace' = Append(trace, Ev("call_ok"))
           ELSE AfterBounce(FALSE, <<Ev("call_err")>>, "call")
    /\ UNCHANGED <<run, ptVars, pathOp, filterVars, nCalls, graphVars, vmVars, store>>

\* bounce after call() returned Ok: decrement the depth, report it, return
\* the GuestResult
PassthroughReturn ==
    /\ Len(frames) > 0 /\ Top.pc = "called"
    /\ store' = PassthroughTrampoline_after_call(store)
    /\ AfterBounce(TRUE,
                   <<[ev |-> "bounced_return", call |-> Top.call,
                      depth |-> store'.stack_depth],
                     Ev("bounce_ok")>>,
                   "none")
    /\ UNCHANGED <<run, ptVars, pathOp, filterVars, nCalls, graphVars, vmVars>>

NextRunner ==
    \/ ScenarioAdd
    \/ ScenarioInstantiate
    \/ RunnerShimInvoke
    \/ PassthroughBounce
    \/ RunnerExporterReturn
    \/ PassthroughReturn
    \/ PostReturnDone

SpecRunner == Init /\ [][NextRunner]_vars

\* ------------------------------------------------------------------------
\* Claims
\* ------------------------------------------------------------------------
\* The last instantiate call was made on the graph as it is now
Fresh == inst.called /\ inst.at = nAdds

ImportsOf(p) ==
    IF p \in DOMAIN graph.imported_interfaces THEN graph.imported_interfaces[p] ELSE <<>>

\* Stored versions of a name that share the alternate key of v
StoredBucket(name, v) ==
    {w \in DOMAIN graph.package_map[name].versions :
        version_alternate(w).some /\ version_alternate(w) = version_alternate(v)}

\* Whether an import can be satisfied, from the primary mappings alone
Resolvable(imp) ==
    /\ imp.package_name \in DOMAIN graph.package_map
    /\ LET stored == DOMAIN graph.package_map[imp.package_name].versions
       IN IF imp.version.some
          THEN \/ imp.version.val \in stored
               \/ imp.version.val.build = <<>>
                    /\ StoredBucket(imp.package_name, imp.version.val) # {}
          ELSE stored # {}

\* The package an import is expected to resolve to
ExpectedPackage(imp) ==
    LET m == graph.package_map[imp.package_name]
    IN IF imp.version.some THEN get(m, imp.version.val).val
       ELSE m.versions[MaxVersion(DOMAIN m.versions)]

\* Packages p imports from
DepsOf(p) ==
    {ExpectedPackage(ImportsOf(p)[k]) :
        k \in {j \in 1..Len(ImportsOf(p)) : Resolvable(ImportsOf(p)[j])}}

RECURSIVE ReachFrom(_)
ReachFrom(S) ==
    LET T == S \cup UNION {DepsOf(p) : p \in S}
    IN IF T = S THEN S ELSE ReachFrom(T)

\* Packages reachable from p through at least one import
ReachPlus(p) == ReachFrom(DepsOf(p))

CycleReachable(origin) == \E p \in ReachFrom({origin}) : p \in ReachPlus(p)

AllResolve(origin) ==
    \A p \in ReachFrom({origin}) :
        \A k \in 1..Len(ImportsOf(p)) : Resolvable(ImportsOf(p)[k])

SeqToSet(q) == {q[k] : k \in 1..Len(q)}

RECURSIVE Flatten(_)
Flatten(qs) == IF Len(qs) = 0 THEN <<>> ELSE qs[1] \o Flatten(Tail(qs))

\* The imports of the packages the traversal expanded, in traversal order
Examined == Flatten([k \in 1..Len(inst.load.visits) |-> ImportsOf(inst.load.visits[k])])

LoadOk == Fresh /\ inst.load.ok

LoadErr(kind) == Fresh /\ ~inst.load.ok /\ inst.load.err.kind = kind

\* C2: a successful load order holds exactly the packages reachable from the
\* origin, each once, every package after all packages it imports from, and
\* the origin last.
C2_LoadOrderTopological ==
    LoadOk =>
        LET order == inst.load.order
        IN /\ SeqToSet(order) = ReachFrom({inst.id})
           /\ Cardinality(SeqToSet(order)) = Len(order)
           /\ \A p \in SeqToSet(order) : \A q \in DepsOf(p) :
                  IndexOf(order, q) < IndexOf(order, p)
           /\ order[Len(order)] = inst.id

C2_Witness ==
    /\ LoadOk
    /\ Len(inst.load.order) >= 3
    /\ \E p \in SeqToSet(inst.load.order) : p # inst.id /\ DepsOf(p) # {}

\* The reported chain is the traversal path from the first occurrence of the
\* repeated package to its re-encounter, rendered as package names.
ChainIsPath ==
    LET path == inst.load.path
        again == inst.load.again
        chain == inst.load.err.cycle
        start == IndexOf(path, again)
    IN /\ start # 0
       /\ path[1] = inst.id
       /\ \A k \in 1..(Len(path) - 1) : path[k + 1] \in DepsOf(path[k])
       /\ again \in DepsOf(path[Len(path)])
       /\ Len(chain) = Len(path) - start + 2
       /\ \A k \in 1..(Len(chain) - 1) :
              chain[k] = graph.packages[path[start + k - 1] + 1].name
       /\ chain[Len(chain)] = graph.packages[again + 1].name
       /\ chain[1] = chain[Len(chain)]

\* C3 as claimed: any cycle reachable from the origin makes instantiate fail
\* with PackageCycle, whose chain runs from the repeated package to itself.
C3_CycleAlwaysReported ==
    (Fresh /\ CycleReachable(inst.id)) =>
        /\ inst.result.status = "LoadPackageError"
        /\ inst.load.err.kind = "PackageCycle"
        /\ ChainIsPath

\* C3 amended: a reachable cycle makes instantiate fail; the failure is
\* PackageCycle when every import reachable from the origin resolves, and a
\* reported chain always runs from the repeated package to itself.
C3_CycleDetection ==
    /\ (Fresh /\ CycleReachable(inst.id)) =>
           /\ inst.result.status = "LoadPackageError"
           /\ inst.result.source = inst.load.err
           /\ inst.load.err.kind \in {"PackageCycle", "MissingPackageDependency",
                                      "CannotResolvePackageVersion"}
           /\ AllResolve(inst.id) => inst.load.err.kind = "PackageCycle"
    /\ LoadErr("PackageCycle") => ChainIsPath /\ CycleReachable(inst.id)

C3_Witness ==
    /\ LoadErr("PackageCycle")
    /\ Len(inst.load.err.cycle) = 3
    /\ inst.load.path[1] # inst.load.again

\* Positions of the runtime instantiations in the log of the last call
InstantiatedAt == {k \in 1..Len(inst.log) : inst.log[k].ev = "instantiate"}

RECURSIVE SetToSortedSeq(_)
SetToSortedSeq(S) ==
    IF S = {} THEN <<>>
    ELSE LET m == CHOOSE x \in S : \A y \in S : x <= y
         IN <<m>> \o SetToSortedSeq(S \ {m})

\* The packages instantiated by the last call, in order
InstantiatedSeq ==
    [k \in 1..Cardinality(InstantiatedAt) |->
        inst.log[SetToSortedSeq(InstantiatedAt)[k]].pkg]

\* Functions of the interface a resolved import names on its exporter
ImportedFuncs(imp) ==
    LET p == graph.packages[ExpectedPackage(imp) + 1]
        path == ForeignInterfacePath_new(p.name, imp.interface_name, p.version)
        e == graph.exported_interfaces[path]
    IN SeqToSet(Fixtures[e.interface[1]].exports[e.interface[2]].funcs)

ShimInstance(imp) ==
    LET p == graph.packages[ExpectedPackage(imp) + 1]
    IN ForeignInterfacePath_display(
           ForeignInterfacePath_new(p.name, imp.interface_name, p.version))

\* C4: in a successful instantiate the dependencies are instantiated in load
\* order, each once, the target last, and every function a package imports
\* has its shim installed before that package is instantiated.
C4_InstantiationOrdering ==
    (Fresh /\ inst.result.status = "Ok") =>
        /\ InstantiatedSeq = inst.load.order
        /\ inst.log[Len(inst.log)] =
               [ev |-> "instantiate", pkg |-> inst.id, role |-> "target"]
        /\ \A k \in InstantiatedAt : k < Len(inst.log) => inst.log[k].role = "shadow"
        /\ \A k \in InstantiatedAt :
               LET q == inst.log[k].pkg
               IN \A n \in 1..Len(ImportsOf(q)) :
                      LET imp == ImportsOf(q)[n]
                      IN \A f \in ImportedFuncs(imp) :
                             \E h \in 1..(k - 1) :
                                 /\ inst.log[h].ev \in {"func_new", "func_new_async"}
                                 /\ inst.log[h].pkg = ExpectedPackage(imp)
                                 /\ inst.log[h].instance = ShimInstance(imp)
                                 /\ inst.log[h].func = f
                                 /\ \E e \in 1..(h - 1) :
                                        inst.log[e] = [ev |-> "instantiate",
                                                       pkg |-> ExpectedPackage(imp),
                                                       role |-> "shadow"]

C4_Witness ==
    /\ Fresh
    /\ inst.result.status = "Ok"
    /\ Len(inst.load.order) >= 3
    /\ Cardinality({k \in 1..Len(inst.log) :
                        inst.log[k].ev \in {"func_new", "func_new_async"}}) >= 3

\* The add_package call of this step and the key it was made with
AddStep == nAdds' = nAdds + 1

KeyPresent(g, fx) ==
    /\ Fixtures[fx].name \in DOMAIN g.package_map
    /\ Fixtures[fx].version \in DOMAIN g.package_map[Fixtures[fx].name].versions

\* C6 as claimed: add_package with a (name, version) already present returns
\* DuplicatePackage{name, version} and leaves package_map, exported_interfaces
\* and imported_interfaces as they were.
C6_DuplicateAlwaysRejected ==
    [][(AddStep /\ KeyPresent(graph, added'.fx)) =>
          /\ added'.status = "DuplicatePackage"
          /\ added'.name = Fixtures[added'.fx].name
          /\ added'.version = Fixtures[added'.fx].version
          /\ graph'.package_map = graph.package_map
          /\ graph'.exported_interfaces = graph.exported_interfaces
          /\ graph'.imported_interfaces = graph.imported_interfaces]_vars

\* C6 amended: the same for bytes that parse as a component; each
\* (name, version) maps to one PackageId, which a rejected add leaves alone.
C6_CatalogueUniqueness ==
    [][(AddStep /\ KeyPresent(graph, added'.fx)) =>
          /\ Fixtures[added'.fx].valid =>
                /\ added'.status = "DuplicatePackage"
                /\ added'.name = Fixtures[added'.fx].name
                /\ added'.version = Fixtures[added'.fx].version
          /\ ~Fixtures[added'.fx].valid => added'.status = "PackageParseError"
          /\ graph'.package_map = graph.package_map
          /\ graph'.exported_interfaces = graph.exported_interfaces
          /\ graph'.imported_interfaces = graph.imported_interfaces]_vars

C6_Witness ==
    /\ added.status = "DuplicatePackage"
    /\ graph.exported_interfaces # <<>>
    /\ graph.imported_interfaces # <<>>
    /\ graph.package_map[added.name].versions[added.version] # Len(graph.packages) - 1

\* C7: a rejected duplicate leaves the packages store as it was.
C7_DuplicateRollback ==
    [][(AddStep /\ added'.status = "DuplicatePackage") =>
          graph'.packages = graph.packages]_vars

\* C8: an add_package call that returns an error leaves packages,
\* package_map, exported_interfaces and imported_interfaces as they were.
C8_NoPartialStateOnError ==
    [][(AddStep /\ added'.status \in {"PackageParseError", "DuplicatePackage",
                                      "ImportParseError"}) =>
          graph' = graph]_vars

\* Position of the first examined import that cannot be resolved (0: none)
FirstUnresolvable ==
    LET bad == {k \in 1..Len(Examined) : ~Resolvable(Examined[k])}
    IN IF bad = {} THEN 0 ELSE CHOOSE k \in bad : \A j \in bad : k <= j

\* C9: the first examined import that does not resolve ends resolution with
\* MissingPackageDependency{name} when package_map has no entry for its name,
\* and with CannotResolvePackageVersion{name, version} when the name is known
\* but no stored version matches; without such an import neither is returned.
C9_ResolutionErrors ==
    Fresh =>
        IF FirstUnresolvable = 0
        THEN inst.load.ok \/ inst.load.err.kind = "PackageCycle"
        ELSE LET imp == Examined[FirstUnresolvable]
             IN /\ ~inst.load.ok
                /\ inst.result = [status |-> "LoadPackageError", source |-> inst.load.err]
                /\ IF imp.package_name \notin DOMAIN graph.package_map
                   THEN inst.load.err = [kind |-> "MissingPackageDependency",
                                         package_name |-> imp.package_name]
                   ELSE inst.load.err = [kind |-> "CannotResolvePackageVersion",
                                         name |-> imp.package_name,
                                         version |-> imp.version]

C9_Witness ==
    /\ LoadErr("CannotResolvePackageVersion")
    /\ inst.load.err.version.some
    /\ DOMAIN graph.package_map[inst.load.err.name].versions # {}

\* C10: every import the traversal resolved went to the package
\* VersionMap.get returns for its version (the highest stored version of the
\* same alternate bucket when the version itself is not stored), or to the
\* highest stored version of the name when it names no version; and every
\* examined import that can be resolved was resolved.
C10_ImportVersionResolution ==
    Fresh =>
        LET resolved == inst.load.resolved
        IN /\ Len(resolved) <= Len(Examined)
           /\ \A k \in 1..Len(resolved) :
                  LET imp == Examined[k]
                      m == graph.package_map[imp.package_name]
                  IN /\ resolved[k][1] = imp
                     /\ Resolvable(imp)
                     /\ imp.version.some =>
                            /\ Some(resolved[k][2]) = get(m, imp.version.val)
                            /\ imp.version.val \notin DOMAIN m.versions =>
                                   resolved[k][2] = m.versions[MaxVersion(
                                       StoredBucket(imp.package_name, imp.version.val))]
                     /\ ~imp.version.some =>
                            resolved[k][2] = m.versions[MaxVersion(DOMAIN m.versions)]
           /\ Len(resolved) < Len(Examined) => ~Resolvable(Examined[Len(resolved) + 1])

C10_Witness ==
    /\ LoadOk
    /\ \E k \in 1..Len(inst.load.resolved) :
           LET imp == inst.load.resolved[k][1]
           IN /\ imp.version.some
              /\ imp.version.val \notin DOMAIN graph.package_map[imp.package_name].versions
    /\ \E k \in 1..Len(inst.load.resolved) : ~inst.load.resolved[k][1].version.some

\* Positions in the trace of the events of one kind for one shim invocation
EventsOf(c, ev) == {k \in 1..Len(trace) : trace[k].call = c /\ trace[k].ev = ev}

Returned(c) == EventsOf(c, "ret_ok") \cup EventsOf(c, "ret_err")

\* C5: a shim invocation that returns success ran the finalizer exactly once,
\* after the exporter's function returned and before the shim returned; when
\* the trampoline or the call returns an error the finalizer is not run and
\* the shim returns that error.
C5_PostReturnExactlyOnce ==
    \A c \in 1..nCalls :
        /\ \A r \in EventsOf(c, "ret_ok") :
               /\ Cardinality(EventsOf(c, "post_return")) = 1
               /\ \A f \in EventsOf(c, "post_return") :
                      /\ f < r
                      /\ \E e \in EventsOf(c, "call_ok") : e < f
        /\ \A e \in EventsOf(c, "call_err") \cup EventsOf(c, "bounce_err") :
               /\ EventsOf(c, "post_return") = {}
               /\ e + 1 \in EventsOf(c, "ret_err")
               /\ trace[e + 1].cause =
                      (IF trace[e].ev = "call_err" THEN "call" ELSE "trampoline")
        /\ Cardinality(Returned(c)) <= 1

C5_Witness ==
    /\ nCalls = 2
    /\ EventsOf(1, "ret_ok") # {}
    /\ EventsOf(2, "ret_err") # {}
    /\ \E k \in EventsOf(2, "enter") : \E r \in EventsOf(1, "ret_ok") : k < r
    /\ \E h \in 1..Len(inst.log) : inst.log[h].ev = "func_new_async"

\* Stored versions sharing the alternate key of v, computed from the primary
\* mapping only.
VmBucketOf(v) ==
    {w \in DOMAIN vm.versions :
        version_alternate(w).some /\ version_alternate(w) = version_alternate(v)}

\* C1: for a query v without build metadata whose alternate bucket holds a
\* stored version, get(v) returns the value stored under the highest version
\* of that bucket, also when v itself is stored.
C1_GetAlternateLatest ==
    (vmOp.op = "get" /\ vmOp.ver.build = <<>> /\ VmBucketOf(vmOp.ver) # {})
        => vmOp.res = Some(vm.versions[MaxVersion(VmBucketOf(vmOp.ver))])

\* ------------------------------------------------------------------------
\* Instantiation: frame and failures
\* ------------------------------------------------------------------------
InstantiateStep == ~inst.called /\ inst'.called

\* C11: every call of instantiate or instantiate_async, successful or
\* failing, leaves packages, package_map, exported_interfaces and
\* imported_interfaces as they were before the call.
C11_InstantiateLeavesGraph ==
    [][InstantiateStep =>
          /\ graph'.packages = graph.packages
          /\ graph'.package_map = graph.package_map
          /\ graph'.exported_interfaces = graph.exported_interfaces
          /\ graph'.imported_interfaces = graph.imported_interfaces]_vars

\* A failing call that had installed shims on the linker, made on the id of a
\* package that has imports
C11_Witness ==
    /\ Fresh
    /\ inst.result.status = "InstantiatePackageDependencyError"
    /\ \E k \in 1..Len(inst.log) : IsShim(k)
    /\ ImportsOf(inst.id) # <<>>

\* Positions of the load order that hold dependencies: those before the target
DepPositions ==
    {k \in 1..Len(inst.load.order) : \A j \in 1..k : inst.load.order[j] # inst.id}

\* The interface names resolution collected for package d
RequiredOf(d) ==
    IF d \in DOMAIN inst.load.interfaces THEN inst.load.interfaces[d] ELSE <<>>

\* The exported-interface key of interface n of stored package d
PathOf(d, n) ==
    ForeignInterfacePath_new(graph.packages[d + 1].name, n, graph.packages[d + 1].version)

FuncsOf(path) ==
    Fixtures[graph.exported_interfaces[path].interface[1]]
        .exports[graph.exported_interfaces[path].interface[2]].funcs

\* Required interfaces of dependencies that have a function and whose
\* trampoline is of the given kind, as <<package, interface name>>
BoundTo(kind) ==
    {x \in UNION {{<<inst.load.order[k], RequiredOf(inst.load.order[k])[n]>> :
                      n \in 1..Len(RequiredOf(inst.load.order[k]))} :
                  k \in DepPositions} :
        /\ x[1] + 1 \in DOMAIN graph.packages
        /\ PathOf(x[1], x[2]) \in DOMAIN graph.exported_interfaces
        /\ FuncsOf(PathOf(x[1], x[2])) # <<>>
        /\ graph.exported_interfaces[PathOf(x[1], x[2])].trampoline.kind = kind}

\* The shims installed for interface x[2] of package x[1]
ShimEvents(x) ==
    {h \in 1..Len(inst.log) :
        /\ IsShim(h)
        /\ inst.log[h].pkg = x[1]
        /\ inst.log[h].instance = ForeignInterfacePath_display(PathOf(x[1], x[2]))}

\* instantiate got as far as opening the linker instance of that interface
ReachedInterface(x) ==
    \E h \in 1..Len(inst.log) :
        inst.log[h] = [ev |-> "linker_instance",
                       instance |-> ForeignInterfacePath_display(PathOf(x[1], x[2])),
                       pkg |-> x[1]]

TargetInstantiated ==
    \E h \in 1..Len(inst.log) :
        inst.log[h] = [ev |-> "instantiate", pkg |-> inst.id, role |-> "target"]

DependencyError(d, cause) ==
    [status |-> "InstantiatePackageDependencyError",
     name |-> graph.packages[d + 1].name,
     version |-> graph.packages[d + 1].version,
     source |-> cause]

\* C12 as claimed: blocking instantiate over a dependency that has a required
\* interface with a function and an Async trampoline always returns
\* InstantiatePackageDependencyError caused by InvalidTrampolineSynchronicity,
\* installs no shim for the function and does not instantiate the target.
C12_MismatchAlwaysReported ==
    (LoadOk /\ inst.mode = "sync" /\ BoundTo("Async") # {}) =>
        /\ \E x \in BoundTo("Async") :
               inst.result = DependencyError(x[1], "InvalidTrampolineSynchronicity")
        /\ \A x \in BoundTo("Async") : ShimEvents(x) = {}
        /\ ~TargetInstantiated

\* C12 amended: such a call fails, installs no shim for the function and does
\* not instantiate the target; the error is InstantiatePackageDependencyError
\* of that dependency caused by InvalidTrampolineSynchronicity when the call
\* gets as far as that interface (a step failing earlier is reported instead).
C12_BlockingModeMismatch ==
    (LoadOk /\ inst.mode = "sync" /\ BoundTo("Async") # {}) =>
        /\ inst.result.status # "Ok"
        /\ \A x \in BoundTo("Async") :
               /\ ShimEvents(x) = {}
               /\ ReachedInterface(x) =>
                      inst.result =
                          DependencyError(x[1], "InvalidTrampolineSynchronicity")
        /\ ~TargetInstantiated

\* The mismatch is met after the shims of an earlier dependency were installed
C12_Witness ==
    /\ LoadOk /\ inst.mode = "sync"
    /\ \E x \in BoundTo("Async") :
           /\ ReachedInterface(x)
           /\ inst.result = DependencyError(x[1], "InvalidTrampolineSynchronicity")
    /\ \E h \in 1..Len(inst.log) : IsShim(h)

\* The functions the installed shims of interface x[2] of package x[1] cover
ShimFuncs(x) == {inst.log[h].func : h \in ShimEvents(x)}

\* C13: instantiate_async never fails with InvalidTrampolineSynchronicity;
\* every shim it installs is a blocking linker function for a Sync trampoline
\* and a suspending one for an Async trampoline; and when it succeeds, every
\* function of every required interface has its shim, whichever the variant.
C13_SuspendingModeAcceptsEither ==
    (Fresh /\ inst.mode = "async") =>
        /\ inst.result.status = "InstantiatePackageDependencyError"
               => inst.result.source # "InvalidTrampolineSynchronicity"
        /\ \A h \in 1..Len(inst.log) :
               IsShim(h) =>
                   inst.log[h].ev = IF inst.log[h].trampoline.kind = "Sync"
                                    THEN "func_new" ELSE "func_new_async"
        /\ inst.result.status = "Ok" =>
               \A kind \in {"Sync", "Async"} : \A x \in BoundTo(kind) :
                   ShimFuncs(x) = SeqToSet(FuncsOf(PathOf(x[1], x[2])))

\* A successful suspending call over a Sync-bound and an Async-bound interface
C13_Witness ==
    /\ Fresh /\ inst.mode = "async" /\ inst.result.status = "Ok"
    /\ \E x \in BoundTo("Sync") : ShimFuncs(x) # {}
    /\ \E x \in BoundTo("Async") : ShimFuncs(x) # {}

\* C14 as claimed: instantiate_async over a dependency that has a required
\* interface with a function and a Sync trampoline fails with
\* InvalidTrampolineSynchronicity.
C14_SyncRejectedWhenSuspending ==
    (LoadOk /\ inst.mode = "async" /\ BoundTo("Sync") # {}) =>
        \E x \in BoundTo("Sync") :
            inst.result = DependencyError(x[1], "InvalidTrampolineSynchronicity")

\* C14 amended: the mismatch is one-sided.  InvalidTrampolineSynchronicity is
\* returned only by blocking instantiate, for a dependency with an
\* Async-bound required interface that has a function; instantiate_async
\* installs the functions of a Sync-bound interface as blocking linker
\* functions.
C14_MismatchIsOneSided ==
    Fresh =>
        /\ (/\ inst.result.status = "InstantiatePackageDependencyError"
            /\ inst.result.source = "InvalidTrampolineSynchronicity") =>
               /\ inst.mode = "sync"
               /\ \E x \in BoundTo("Async") :
                      inst.result =
                          DependencyError(x[1], "InvalidTrampolineSynchronicity")
        /\ (inst.mode = "async" /\ inst.load.ok) =>
               \A x \in BoundTo("Sync") :
                   /\ \A h \in ShimEvents(x) : inst.log[h].ev = "func_new"
                   /\ inst.result.status = "Ok" => ShimFuncs(x) # {}

\* instantiate_async succeeded over a Sync-bound interface
C14_Witness ==
    /\ Fresh /\ inst.mode = "async" /\ inst.result.status = "Ok"
    /\ \E x \in BoundTo("Sync") :
           \E h \in ShimEvents(x) : inst.log[h].ev = "func_new"

\* The causes a failing dependency can carry
ShadowCauses ==
    {"ComponentInstantiationError", "InstanceMissingInterfaceExport",
     "MissingInterfaceExport", "LinkerInstanceError",
     "LinkFuncInstantiationError", "InvalidTrampolineSynchronicity"}

\* The calls the log holds for package d
CallsFor(d) == {h \in 1..Len(inst.log) : inst.log[h].pkg = d}

\* Every function of every required interface of dependency d has its shim
FullyShimmed(d) ==
    \A n \in 1..Len(RequiredOf(d)) :
        /\ PathOf(d, RequiredOf(d)[n]) \in DOMAIN graph.exported_interfaces
        /\ ShimFuncs(<<d, RequiredOf(d)[n]>>)
               = SeqToSet(FuncsOf(PathOf(d, RequiredOf(d)[n])))

\* Dependency d was instantiated as a shadow
ShadowInstantiated(d) ==
    \E h \in 1..Len(inst.log) :
        inst.log[h] = [ev |-> "instantiate", pkg |-> d, role |-> "shadow"]

\* The failure reported is that of the dependency at position k
FailedAt(k) ==
    /\ inst.result.source \in ShadowCauses
    /\ inst.result = DependencyError(inst.load.order[k], inst.result.source)
    /\ inst.result.source = "ComponentInstantiationError"
           <=> ~ShadowInstantiated(inst.load.order[k])
    /\ \A j \in DepPositions :
           /\ j > k => CallsFor(inst.load.order[j]) = {}
           /\ j < k => /\ ShadowInstantiated(inst.load.order[j])
                       /\ FullyShimmed(inst.load.order[j])

\* C15: when instantiate returns InstantiatePackageDependencyError, it names
\* one dependency d of the load order with d's name and version and the cause
\* of d's failure; no dependency after d was compiled, instantiated or
\* shimmed, the target was not instantiated, and every dependency before d
\* is instantiated with all its shims on the linker.
C15_DependencyFailureAborts ==
    (Fresh /\ inst.result.status = "InstantiatePackageDependencyError") =>
        /\ inst.load.ok
        /\ ~TargetInstantiated
        /\ \E k \in DepPositions : FailedAt(k)

\* The second dependency fails after the shims of the first were installed
C15_Witness ==
    /\ Fresh /\ inst.result.status = "InstantiatePackageDependencyError"
    /\ inst.load.ok
    /\ \E k \in DepPositions :
           /\ FailedAt(k)
           /\ \E j \in DepPositions :
                  j < k /\ \E h \in CallsFor(inst.load.order[j]) : IsShim(h)

\* The instance exports of fixture fx whose key is "{name}/{iface}@{version}",
\* as <<position, iface>>
CanonicalExports(fx, name, version) ==
    {x \in UNION {{<<k, SubSeq(Fixtures[fx].exports[k].name, a, b)>> :
                      a \in 1..Len(Fixtures[fx].exports[k].name),
                      b \in 1..Len(Fixtures[fx].exports[k].name)} :
                  k \in 1..Len(Fixtures[fx].exports)} :
        /\ Fixtures[fx].exports[x[1]].kind = "Instance"
        /\ Fixtures[fx].exports[x[1]].name
               = name \o <<"/">> \o x[2] \o <<"@">> \o VersionDisplay(version)}

\* C16: after add_package(name, version, ...) succeeds with a new id, every
\* instance export of the package whose key is "{name}/{iface}@{version}" is
\* in exported_interfaces under (name, iface, version), owned by the new id,
\* with the interface trampoline produced for iface; and every entry that
\* was in exported_interfaces before the call is unchanged.
C16_ExportIndexing ==
    [][(AddStep /\ added'.status = "Ok") =>
          /\ added'.id = Len(graph.packages)
          /\ \A x \in CanonicalExports(added'.fx, Fixtures[added'.fx].name,
                                        Fixtures[added'.fx].version) :
                 /\ ForeignInterfacePath_new(Fixtures[added'.fx].name, x[2],
                                             Some(Fixtures[added'.fx].version))
                        \in DOMAIN graph'.exported_interfaces
                 /\ graph'.exported_interfaces[
                        ForeignInterfacePath_new(Fixtures[added'.fx].name, x[2],
                                                 Some(Fixtures[added'.fx].version))]
                      = [package |-> added'.id,
                         interface |-> <<added'.fx, x[1]>>,
                         trampoline |->
                             interface_trampoline(Fixtures[added'.fx].trampoline,
                                                  x[2])]
          /\ \A p \in DOMAIN graph.exported_interfaces :
                 /\ p \in DOMAIN graph'.exported_interfaces
                 /\ graph'.exported_interfaces[p] = graph.exported_interfaces[p]
      ]_vars

\* A successful add_package indexed two interfaces next to an earlier
\* package's entry
C16_Witness ==
    /\ added.status = "Ok"
    /\ added.id = Len(graph.packages) - 1
    /\ Cardinality(CanonicalExports(added.fx, Fixtures[added.fx].name, Fixtures[added.fx].version)) = 2
    /\ \A x \in CanonicalExports(added.fx, Fixtures[added.fx].name, Fixtures[added.fx].version) :
           /\ ForeignInterfacePath_new(Fixtures[added.fx].name, x[2], Some(Fixtures[added.fx].version))
                  \in DOMAIN graph.exported_interfaces
           /\ graph.exported_interfaces[
                  ForeignInterfacePath_new(Fixtures[added.fx].name, x[2], Some(Fixtures[added.fx].version))]
                  .package = added.id
    /\ \E p \in DOMAIN graph.exported_interfaces :
           graph.exported_interfaces[p].package # added.id

\* C17: imported_interfaces holds each foreign interface path at most once
\* for every package, after any sequence of add_package calls.
C17_ImportsDeduplicated ==
    \A p \in DOMAIN graph.imported_interfaces :
        \A i, j \in 1..Len(graph.imported_interfaces[p]) :
            graph.imported_interfaces[p][i] = graph.imported_interfaces[p][j]
                => i = j

\* The rule filter k of the evaluated list yields for the evaluated path
RuleOf(k) == filter_rule(ruled.filters[k], ruled.path)

\* The filters of the evaluated list that yield Skip or Force
Deciding == {k \in 1..Len(ruled.filters) : RuleOf(k) \in {"Skip", "Force"}}

\* C19: the rule of a list of filters is the rule of the first filter, in list
\* order, that yields Skip or Force, and no filter after it is asked; when
\* every filter yields Include (the empty list too) the rule is Include.
C19_ListShortCircuit ==
    (ruled.op = "vec" /\ ruled.done) =>
        /\ Deciding = {} =>
               ruled.rule = "Include" /\ ruled.consulted = Len(ruled.filters)
        /\ \A k \in Deciding :
               (\A j \in Deciding : k <= j) =>
                   ruled.rule = RuleOf(k) /\ ruled.consulted = k

\* A list whose first deciding filter is followed by one that decides otherwise
C19_Witness ==
    /\ ruled.op = "vec" /\ ruled.done
    /\ \E k, j \in Deciding :
           /\ k < j /\ \A h \in Deciding : k <= h
           /\ k > 1
           /\ RuleOf(j) # RuleOf(k)
           /\ ruled.rule = RuleOf(k)

\* The canonical rendering "pkg/iface[@ver]" of the evaluated path
Rendered ==
    ruled.path.package_name \o <<"/">> \o ruled.path.interface_name
      \o (IF ruled.path.version.some
          THEN <<"@">> \o VersionDisplay(ruled.path.version.val)
          ELSE <<>>)

\* C20: a RegexMatchFilter yields its match rule when the regex matches the
\* canonical rendering of the path and its default rule otherwise; the
\* default rule of a filter built with new() is Include.
C20_RegexFilter ==
    (ruled.op \in {"new", "with_default"} /\ ruled.done) =>
        ruled.rule = IF Regex_is_match(ruled.regex, Rendered)
                     THEN ruled.match_rule
                     ELSE IF ruled.op = "new" THEN "Include"
                     ELSE ruled.default_rule

\* A regex that matches the rendering only through its version part, and a
\* filter built with new() falling back to Include
C20_Witness ==
    /\ ruled.done
    /\ \/ /\ ruled.op = "with_default"
          /\ Regex_is_match(ruled.regex, Rendered)
          /\ ~Regex_is_match(ruled.regex, ruled.path.package_name)
          /\ ~Regex_is_match(ruled.regex, ruled.path.interface_name)
          /\ ruled.match_rule # ruled.default_rule
          /\ ruled.rule = ruled.match_rule
       \/ /\ ruled.op = "new"
          /\ ~Regex_is_match(ruled.regex, Rendered)
          /\ ruled.match_rule # "Include"
          /\ ruled.rule = "Include"

\* The import of stored package p named by entry j of its component's import
\* names, when it is a foreign path
ForeignImport(p, j) ==
    IF InterfacePath_from_str(PackageImportNames(graph.packages[p + 1])[j]).ok
    THEN into_foreign(
             InterfacePath_from_str(PackageImportNames(graph.packages[p + 1])[j]).path)
    ELSE None

Skipped(path) == import_filter.some /\ filter_rule(import_filter.val, path) = "Skip"

VmStored ==
    \/ vmOp'.op = "try_insert" /\ vmOp'.ok
    \/ vmOp'.op = "insert"

\* Every entry other than that of v reads the same before and after the step
VmOthersKept(v) ==
    \A w \in VmVersions \ {v} : get_exact(vm', w) = get_exact(vm, w)

\* C21: after a try_insert or insert that stores (v, t), get_exact(v) is t and
\* every other entry reads as before; after remove(v), get_exact(v) is None,
\* removing v again returns None and changes nothing, and every other entry
\* reads as before.
C21_RoundTrip ==
    [][/\ VmStored =>
            /\ get_exact(vm', vmOp'.ver) = Some(vmOp'.val)
            /\ VmOthersKept(vmOp'.ver)
       /\ vmOp'.op = "remove" =>
            /\ vmOp'.res = get_exact(vm, vmOp'.ver)
            /\ get_exact(vm', vmOp'.ver) = None
            /\ remove(vm', vmOp'.ver) = [old |-> None, map |-> vm']
            /\ VmOthersKept(vmOp'.ver)
      ]_vars

\* A stored version was removed from a map that keeps another entry
C21_Witness ==
    /\ vmOp.op = "remove" /\ vmOp.res.some
    /\ vmOp.ver \notin DOMAIN vm.versions
    /\ DOMAIN vm.versions # {}

\* C22: try_insert of a version already present returns Err carrying the
\* rejected (version, value) pair and leaves the primary mapping and the
\* alternate buckets as they were.
C22_TryInsertUniqueness ==
    [][(vmOp'.op = "try_insert" /\ vmOp'.ver \in DOMAIN vm.versions) =>
          /\ ~vmOp'.ok
          /\ vmOp'.err = Some(<<vmOp'.ver, vmOp'.val>>)
          /\ vm'.versions = vm.versions
          /\ vm'.alternates = vm.alternates
      ]_vars

\* A rejected try_insert whose value differs from the stored one
C22_Witness ==
    /\ vmOp.op = "try_insert" /\ ~vmOp.ok
    /\ vmOp.ver \in DOMAIN vm.versions
    /\ vm.versions[vmOp.ver] # vmOp.val
    /\ vm.alternates # <<>>

\* The buckets that hold version v
VmBucketsWith(v) == {b \in DOMAIN vm.alternates : v \in vm.alternates[b]}

\* C23: for every version v with a pre-release tag, in every reachable map,
\* get(v) equals get_exact(v) and v is in no alternate bucket, stored or not.
C23_PreReleaseOpacity ==
    /\ \A v \in VmVersions :
           v.pre # <<>> => get(vm, v) = get_exact(vm, v) /\ VmBucketsWith(v) = {}
    /\ (vmOp.op = "get" /\ vmOp.ver.pre # <<>>) =>
           vmOp.res = IF vmOp.ver \in DOMAIN vm.versions
                      THEN Some(vm.versions[vmOp.ver]) ELSE None

\* get of a pre-release that is not stored, next to a stored release of the
\* same major and a stored pre-release
C23_Witness ==
    /\ vmOp.op = "get" /\ vmOp.ver.pre # <<>> /\ vmOp.res = None
    /\ \E w \in DOMAIN vm.versions : w.pre = <<>> /\ w.major = vmOp.ver.major
    /\ \E w \in DOMAIN vm.versions : w.pre # <<>>

\* C24: for every query v carrying build metadata, in every reachable map,
\* get(v) equals get_exact(v): the value stored under v itself, or None.
C24_BuildSuppressesFallback ==
    /\ \A v \in VmVersions : v.build # <<>> => get(vm, v) = get_exact(vm, v)
    /\ (vmOp.op = "get" /\ vmOp.ver.build # <<>>) =>
           vmOp.res = IF vmOp.ver \in DOMAIN vm.versions
                      THEN Some(vm.versions[vmOp.ver]) ELSE None

\* get of a build-tagged version that is not stored while its bucket is not
\* empty
C24_Witness ==
    /\ vmOp.op = "get" /\ vmOp.ver.build # <<>> /\ vmOp.res = None
    /\ \E w \in DOMAIN vm.versions :
           w.pre = <<>> /\ w.major = vmOp.ver.major /\ w.major > 0

\* The stored keys no other stored key is above
VmHighest ==
    {k \in DOMAIN vm.versions : \A w \in DOMAIN vm.versions : ~VLess(k, w)}

\* C25: get_or_latest(None) is the value of the highest key of the primary
\* mapping, whatever bucket it is in, and None on an empty map;
\* get_or_latest(Some(v)) equals get(v).
C25_GetOrLatest ==
    vmOp.op = "get_or_latest" =>
        /\ (~vmOp.query.some /\ DOMAIN vm.versions = {}) => vmOp.res = None
        /\ (~vmOp.query.some /\ DOMAIN vm.versions # {}) =>
               /\ Cardinality(VmHighest) = 1
               /\ \A k \in VmHighest : vmOp.res = Some(vm.versions[k])
        /\ vmOp.query.some => vmOp.res = get(vm, vmOp.query.val)

\* get_or_latest(None) on a map with two buckets whose values differ
C25_Witness ==
    /\ vmOp.op = "get_or_latest" /\ ~vmOp.query.some
    /\ Cardinality(DOMAIN vm.alternates) = 2
    /\ \E k, w \in DOMAIN vm.versions :
           VLess(w, k) /\ vm.versions[w] # vm.versions[k]
                       /\ vmOp.res = Some(vm.versions[k])

\* The alternate of a version without a pre-release tag
AlternateKey(v) ==
    IF v.major > 0 THEN Ver(v.major, 0, 0, <<>>, <<>>)
    ELSE IF v.minor > 0 THEN Ver(0, v.minor, 0, <<>>, <<>>)
    ELSE Ver(0, 0, v.patch, <<>>, <<>>)

\* C26 (A1): every stored version without a pre-release tag is a member of
\* exactly one alternate bucket, the one keyed by its alternate.
C26_InvariantA1 ==
    \A v \in DOMAIN vm.versions :
        v.pre = <<>> => VmBucketsWith(v) = {AlternateKey(v)}

\* An overwriting insert on a map with a two-member bucket and a build-tagged
\* member
C26_Witness ==
    /\ vmOp.op = "insert" /\ vmOp.res.some
    /\ \E b \in DOMAIN vm.alternates :
           /\ Cardinality(vm.alternates[b]) = 2
           /\ \E v \in vm.alternates[b] : v.build # <<>>

\* C27 (A2): every member of every alternate bucket is a key of the primary
\* mapping, and no alternate bucket is empty.
C27_InvariantA2 ==
    \A b \in DOMAIN vm.alternates :
        /\ vm.alternates[b] # {}
        /\ vm.alternates[b] \subseteq DOMAIN vm.versions

\* A remove that emptied one bucket and left another
C27_Witness ==
    /\ vmOp.op = "remove" /\ vmOp.res.some
    /\ vmOp.ver.pre = <<>>
    /\ AlternateKey(vmOp.ver) \notin DOMAIN vm.alternates
    /\ vm.alternates # <<>>

\* ------------------------------------------------------------------------
\* Shim invocations: the trampoline calls or fails
\* ------------------------------------------------------------------------
\* C28: a shim invocation returns success only after the trampoline invoked
\* call() / call_async(); the exporter's function is invoked at most once per
\* shim invocation; and when the trampoline returns an error without having
\* invoked call(), the shim returns that error and the exporter's function
\* has not run for that invocation.
C28_CallOrFail ==
    \A c \in 1..nCalls :
        /\ \A r \in EventsOf(c, "ret_ok") : \E e \in EventsOf(c, "call") : e < r
        /\ Cardinality(EventsOf(c, "call")) <= 1
        /\ \A b \in EventsOf(c, "bounce_err") :
               (\A e \in EventsOf(c, "call") : e > b) =>
                   /\ EventsOf(c, "call") = {}
                   /\ b + 1 \in EventsOf(c, "ret_err")
                   /\ trace[b + 1].cause = "trampoline"

\* One invocation failed in the trampoline before call(); another went
\* through call() and returned success
C28_Witness ==
    /\ \E c \in 1..nCalls :
           /\ EventsOf(c, "bounce_err") # {} /\ EventsOf(c, "call") = {}
           /\ EventsOf(c, "ret_err") # {}
    /\ \E c \in 1..nCalls :
           /\ EventsOf(c, "ret_ok") # {} /\ EventsOf(c, "call") # {}

\* ------------------------------------------------------------------------
\* PackageTrampoline: context selection
\* ------------------------------------------------------------------------
\* The context interface_trampoline binds for a name
BoundContext(self, name) == interface_trampoline(self, name).context

\* C29: interface_trampoline(name) is bound to the override set for name when
\* there is one and to the default context otherwise; set_interface_context
\* binds the given context for its name and remove_interface_context binds
\* the default again, and neither changes what any other name is bound to.
C29_ContextSelection ==
    [][/\ ptOp'.op = "interface_trampoline" =>
            ptOp'.res.context =
                IF ptOp'.name \in DOMAIN pt.interface_context_overrides
                THEN pt.interface_context_overrides[ptOp'.name]
                ELSE pt.default_context
       /\ ptOp'.op = "set_interface_context" =>
            /\ BoundContext(pt', ptOp'.name) = ptOp'.context
            /\ \A name \in InterfaceNames \ {ptOp'.name} :
                   BoundContext(pt', name) = BoundContext(pt, name)
       /\ ptOp'.op = "remove_interface_context" =>
            /\ BoundContext(pt', ptOp'.name) = pt.default_context
            /\ \A name \in InterfaceNames \ {ptOp'.name} :
                   BoundContext(pt', name) = BoundContext(pt, name)
      ]_vars

\* An override was removed while another name keeps an override that differs
\* from the default
C29_Witness ==
    /\ ptOp.op = "remove_interface_context"
    /\ ptOp.name \notin DOMAIN pt.interface_context_overrides
    /\ \E name \in DOMAIN pt.interface_context_overrides :
           pt.interface_context_overrides[name] # pt.default_context
    /\ pt.default_context # 0

\* ------------------------------------------------------------------------
\* Interface paths: Display and parse
\* ------------------------------------------------------------------------
\* C30: for every string that InterfacePath::from_str accepts, rendering the
\* parsed path with Display yields that string, in the local form and in the
\* foreign forms.
C30_DisplayInvertsParse ==
    (pathOp.done /\ pathOp.op \in {"display", "foreign_display"} /\ pathOp.ok) =>
        (pathOp.shown.some => pathOp.shown.val = pathOp.s)

\* ------------------------------------------------------------------------
\* Interface paths: rejected inputs
\* ------------------------------------------------------------------------
\* Number of occurrences of ch in s
CountOf(s, ch) == Cardinality({i \in 1..Len(s) : s[i] = ch})

PathRejected(kind) == ~pathOp.res.ok /\ pathOp.res.err = kind

\* The text after the single '@' of a string with exactly one '/' and one '@'
\* that follows it
VersionText(s) == SplitOn(SplitOn(s, "/")[2], "@")[2]

\* C31: from_str returns FormatError for every input with more than one '/',
\* for every input without '/' that contains '@', and for every input ending
\* in '/'; every accepted foreign path has a non-empty package name and a
\* non-empty interface name; "pkg/iface@..." with an empty or invalid version
\* returns VersionParseError.
C31_ParseRejections ==
    pathOp.done =>
        /\ CountOf(pathOp.s, "/") > 1 => PathRejected("FormatError")
        /\ (CountOf(pathOp.s, "/") = 0 /\ Contains(pathOp.s, "@")) =>
               PathRejected("FormatError")
        /\ pathOp.s[Len(pathOp.s)] = "/" => PathRejected("FormatError")
        /\ (pathOp.res.ok /\ pathOp.res.path.package_name.some) =>
               /\ pathOp.res.path.package_name.val # <<>>
               /\ pathOp.res.path.interface_name # <<>>
        /\ (/\ CountOf(pathOp.s, "/") = 1
            /\ CountOf(SplitOn(pathOp.s, "/")[2], "@") = 1
            /\ ~VersionParse(VersionText(pathOp.s)).ok) =>
               PathRejected("VersionParseError")

\* ------------------------------------------------------------------------
\* Required-interface sets
\* ------------------------------------------------------------------------
\* The interface names the packages reachable from the origin import from d
ImportedFrom(d) ==
    UNION {{ImportsOf(q)[k].interface_name :
               k \in {j \in 1..Len(ImportsOf(q)) :
                         /\ Resolvable(ImportsOf(q)[j])
                         /\ ExpectedPackage(ImportsOf(q)[j]) = d}} :
           q \in ReachFrom({inst.id})}

\* The shims the linker holds for dependency d, as <<instance, function>>
ShimsOf(d) ==
    {<<inst.log[h].instance, inst.log[h].func>> : h \in {j \in CallsFor(d) : IsShim(j)}}

\* The functions of the interfaces in N of stored package d, as <<instance,
\* function>>
ExportedFuncs(d, N) ==
    UNION {{<<ForeignInterfacePath_display(PathOf(d, n)), f>> :
               f \in SeqToSet(FuncsOf(PathOf(d, n)))} : n \in N}

\* C32: after a successful resolution the interface names accumulated for
\* each package d are exactly the names the origin's transitive closure
\* imports from d, each once; when instantiate succeeds the shims installed
\* on d's shadow are those of exactly these interfaces, one per exported
\* function.
C32_RequiredInterfaces ==
    LoadOk =>
        /\ DOMAIN inst.load.interfaces \subseteq SeqToSet(inst.load.order)
        /\ \A d \in SeqToSet(inst.load.order) :
               /\ SeqToSet(RequiredOf(d)) = ImportedFrom(d)
               /\ Cardinality(SeqToSet(RequiredOf(d))) = Len(RequiredOf(d))
        /\ inst.result.status = "Ok" =>
               \A k \in DepPositions :
                   /\ ShimsOf(inst.load.order[k])
                          = ExportedFuncs(inst.load.order[k],
                                          ImportedFrom(inst.load.order[k]))
                   /\ Cardinality({h \in CallsFor(inst.load.order[k]) : IsShim(h)})
                          = Cardinality(ShimsOf(inst.load.order[k]))

\* A dependency imported by two packages, under two interface names, one of
\* them listed more than once by its importer, and exporting an interface
\* nobody imports
C32_Witness ==
    /\ LoadOk /\ inst.result.status = "Ok"
    /\ \E k \in DepPositions :
         \E d \in {inst.load.order[k]} :
           /\ Cardinality(ImportedFrom(d)) = 2
           /\ Cardinality({q \in ReachFrom({inst.id}) : d \in DepsOf(q)}) = 2
           /\ \E q \in ReachFrom({inst.id}) : \E i, j \in 1..Len(ImportsOf(q)) :
                  i # j /\ ImportsOf(q)[i] = ImportsOf(q)[j]
                        /\ ExpectedPackage(ImportsOf(q)[i]) = d
           /\ \E path \in DOMAIN graph.exported_interfaces :
                  /\ graph.exported_interfaces[path].package = d
                  /\ path.interface_name \notin ImportedFrom(d)

\* ------------------------------------------------------------------------
\* Nested calls through the runner's trampoline
\* ------------------------------------------------------------------------
\* Positions of the trampoline's reports in the trace
Bounced(ev) == {k \in 1..Len(trace) : trace[k].ev = ev}

\* The report of the call that the return reported at r belongs to
CallOfReturn(r) ==
    {b \in Bounced("bounced_call") : b < r /\ trace[b].call = trace[r].call}

\* C33: with the runner's trampoline every reported return matches the most
\* recent reported call that has no return yet, the depth reported at a
\* return is the depth reported at its call, and stack_depth is 0 whenever a
\* top-level call has just completed successfully.
C33_NestedBounce ==
    /\ \A r \in Bounced("bounced_return") :
           /\ Cardinality(CallOfReturn(r)) = 1
           /\ \A b \in CallOfReturn(r) :
                  /\ trace[r].depth = trace[b].depth
                  /\ \A b2 \in Bounced("bounced_call") :
                         (b < b2 /\ b2 < r) =>
                             \E r2 \in Bounced("bounced_return") :
                                 /\ b2 < r2 /\ r2 < r
                                 /\ trace[r2].call = trace[b2].call
    /\ \A r, r2 \in Bounced("bounced_return") :
           trace[r].call = trace[r2].call => r = r2
    /\ (Len(frames) = 0 /\ Len(trace) > 0 /\ trace[Len(trace)].ev = "ret_ok") =>
           store.stack_depth = 0

\* A top-level call completed successfully after a nested call was reported
\* at depth 1 on its way in and on its way out
C33_Witness ==
    /\ Len(frames) = 0 /\ Len(trace) > 0 /\ trace[Len(trace)].ev = "ret_ok"
    /\ \E r \in Bounced("bounced_return") :
           /\ trace[r].depth = 1
           /\ \E b \in CallOfReturn(r) : trace[b].depth = 1
    /\ \E r \in Bounced("bounced_return") : trace[r].depth = 0

\* ------------------------------------------------------------------------
\* Acyclic catalogues
\* ------------------------------------------------------------------------
\* Packages reachable from the origin that import from d
ImportersOf(d) == {q \in ReachFrom({inst.id}) : d \in DepsOf(q)}

\* C34: when every import reachable from the origin resolves and no package
\* reachable from the origin reaches itself, dependency resolution succeeds:
\* instantiate reports no PackageCycle and no other resolution error, also
\* when a package is imported by several packages or several times by one.
C34_NoFalseCycle ==
    (Fresh /\ AllResolve(inst.id) /\ ~CycleReachable(inst.id)) =>
        /\ inst.load.ok
        /\ inst.result.status # "LoadPackageError"

\* A diamond: the origin imports from two packages that both import from a
\* third, one of them listing the same import more than once
C34_Witness ==
    /\ Fresh /\ AllResolve(inst.id) /\ ~CycleReachable(inst.id)
    /\ \E d \in ReachFrom({inst.id}) :
           /\ d \notin DepsOf(inst.id)
           /\ Cardinality(ImportersOf(d)) = 2
           /\ ImportersOf(d) \subseteq DepsOf(inst.id)
           /\ \E q \in ImportersOf(d) : \E i, j \in 1..Len(ImportsOf(q)) :
                  i # j /\ ImportsOf(q)[i] = ImportsOf(q)[j]

\* ------------------------------------------------------------------------
\* Rejected adds and the indexes
\* ------------------------------------------------------------------------
\* Every import name of component fx parses
ImportsParse(fx) ==
    \A k \in 1..Len(PackageImportNames([fx |-> fx])) :
        InterfacePath_from_str(PackageImportNames([fx |-> fx])[k]).ok

\* The PackageIds package_map holds
MappedIds(g) ==
    UNION {{g.package_map[n].versions[v] : v \in DOMAIN g.package_map[n].versions} :
           n \in DOMAIN g.package_map}

\* The PackageIds that own an entry of exported_interfaces
ExportOwners(g) ==
    {g.exported_interfaces[path].package : path \in DOMAIN g.exported_interfaces}

Rejected(status) == status \in {"DuplicatePackage", "ImportParseError"}

\* C35: an add_package call that returned DuplicatePackage or ImportParseError
\* leaves no index entry for the package it rejected, and the next
\* add_package of a component that parses, whose import names parse and whose
\* (name, version) is not stored, succeeds.
C35_FailedAddsDoNotPoison ==
    [][AddStep =>
          /\ Rejected(added'.status) =>
                 Len(graph'.packages) - 1 \notin
                     MappedIds(graph') \cup ExportOwners(graph')
                       \cup DOMAIN graph'.imported_interfaces
          /\ (/\ Rejected(added.status)
              /\ Fixtures[added'.fx].valid
              /\ ImportsParse(added'.fx)
              /\ ~KeyPresent(graph, added'.fx)) => added'.status = "Ok"
      ]_vars

\* C36: every key of imported_interfaces and every owner recorded in
\* exported_interfaces is a PackageId held by package_map, and every
\* PackageId that package_map holds under (name, version) indexes a package
\* of the slab with that name and version.
C36_IndexIntegrity ==
    /\ DOMAIN graph.imported_interfaces \subseteq MappedIds(graph)
    /\ ExportOwners(graph) \subseteq MappedIds(graph)
    /\ \A n \in DOMAIN graph.package_map :
           \A v \in DOMAIN graph.package_map[n].versions :
               \E id \in {graph.package_map[n].versions[v]} :
                   /\ packages_get(graph.packages, id).some
                   /\ packages_get(graph.packages, id).val.name = n
                   /\ packages_get(graph.packages, id).val.version = Some(v)

\* ------------------------------------------------------------------------
\* Resolution precedes instantiation
\* ------------------------------------------------------------------------
\* C37: when dependency resolution from the target fails, instantiate /
\* instantiate_async returns that error (PackageCycle,
\* MissingPackageDependency or CannotResolvePackageVersion) as
\* LoadPackageError and has made no call on the runtime or the linker: no
\* package was compiled or instantiated and nothing was defined.
C37_ResolutionFirst ==
    (Fresh /\ ~inst.load.ok) =>
        /\ inst.result = [status |-> "LoadPackageError", source |-> inst.load.err]
        /\ inst.load.err.kind \in {"PackageCycle", "MissingPackageDependency",
                                   "CannotResolvePackageVersion"}
        /\ inst.log = <<>>

\* Resolution failed after an import of the stored target had been resolved
\* to a stored package
C37_Witness ==
    /\ Fresh /\ ~inst.load.ok
    /\ packages_get(graph.packages, inst.id).some
    /\ Len(inst.load.resolved) > 0
    /\ inst.load.err.kind = "CannotResolvePackageVersion"

\* ------------------------------------------------------------------------
\* Self-imports
\* ------------------------------------------------------------------------
\* Packages reachable from the origin with an import that resolves to
\* themselves
SelfImporters == {p \in ReachFrom({inst.id}) : p \in DepsOf(p)}

\* Packages reachable from the origin that reach themselves
OnCycle == {q \in ReachFrom({inst.id}) : q \in ReachPlus(q)}

NameOf(p) == graph.packages[p + 1].name

\* The last two names of the reported chain
ChainEnd ==
    SubSeq(inst.load.err.cycle, Len(inst.load.err.cycle) - 1, Len(inst.load.err.cycle))

\* C38 as claimed: resolution from any origin that reaches a self-importing
\* package p fails with PackageCycle whose chain ends [p, p].
C38_SelfImportAlwaysCycle ==
    (Fresh /\ SelfImporters # {}) =>
        /\ ~inst.load.ok
        /\ inst.load.err.kind = "PackageCycle"
        /\ \E p \in SelfImporters : ChainEnd = <<NameOf(p), NameOf(p)>>

\* C38 amended: resolution from any origin that reaches a self-importing
\* package fails; the failure is PackageCycle when every import reachable
\* from the origin resolves; and when the self-importing package p is then
\* the only package on a cycle, the chain is [p, p].
C38_SelfImportCycle ==
    (Fresh /\ SelfImporters # {}) =>
        /\ inst.result = [status |-> "LoadPackageError", source |-> inst.load.err]
        /\ AllResolve(inst.id) => inst.load.err.kind = "PackageCycle"
        /\ \A p \in SelfImporters :
               (AllResolve(inst.id) /\ OnCycle = {p}) =>
                   inst.load.err.cycle = <<NameOf(p), NameOf(p)>>

\* The chain [p, p] was reported from an origin other than p, which imports
\* from p and from another package
C38_Witness ==
    /\ Fresh /\ AllResolve(inst.id)
    /\ \E p \in SelfImporters :
           /\ OnCycle = {p}
           /\ p # inst.id
           /\ Cardinality(DepsOf(inst.id)) = 2
           /\ inst.load.err.cycle = <<NameOf(p), NameOf(p)>>

\* ------------------------------------------------------------------------
\* C39
\* ------------------------------------------------------------------------
\* The packages put on the load stack by the running or finished call
RunVisits == IF run.phase = "loop" THEN run.st.visits
             ELSE IF run.phase = "done" THEN run.result.visits ELSE <<>>

\* Some package reachable from the origin lists the same import path twice,
\* or two imports that resolve to the same package
MultipleEntries ==
    \E p \in SeqToSet(RunVisits) :
        \E i, j \in 1..Len(ImportsOf(p)) :
            /\ i # j
            /\ Resolvable(ImportsOf(p)[i])
            /\ Resolvable(ImportsOf(p)[j])
            /\ ExpectedPackage(ImportsOf(p)[i]) = ExpectedPackage(ImportsOf(p)[j])

\* C39: package_load_order, once entered, returns: with Ok, whose value is the
\* one the whole loop computes, or with one of its three errors; on the way
\* no package is put on the expansion stack (load_stack) twice, on catalogues
\* with or without cycles and with imports listed more than once.
C39_LoadOrderTerminates ==
    /\ [](/\ Cardinality(SeqToSet(RunVisits)) = Len(RunVisits)
          /\ SeqToSet(RunVisits) \subseteq 0..(Len(graph.packages) - 1)
          /\ run.phase = "done" =>
               /\ run.result = package_load_order(graph, run.origin)
               /\ run.result.ok \in BOOLEAN
               /\ ~run.result.ok =>
                    run.result.err.kind \in {"PackageCycle", "MissingPackageDependency",
                                             "CannotResolvePackageVersion"})
    /\ (run.phase = "loop") ~> (run.phase = "done")

\* A resolution that returned PackageCycle after visiting a package whose
\* imports reach one package through several entries
C39_Witness ==
    /\ run.phase = "done"
    /\ ~run.result.ok
    /\ run.result.err.kind = "PackageCycle"
    /\ MultipleEntries
    /\ Len(RunVisits) >= 3

\* A resolution that returned Ok over a shared dependency
C39_WitnessOk ==
    /\ run.phase = "done"
    /\ run.result.ok
    /\ MultipleEntries
    /\ Len(RunVisits) >= 4

====
